---- MODULE Spec2Model ----
(***************************************************************************)
(* A model of the ClauseForge-AI backend core: the compliance engine, the   *)
(* risk scoring engine, the RAG query pipeline with its response cache and  *)
(* the document comparison service.                                         *)
(*                                                                          *)
(* Text is modelled as a sequence of words (tokens): a chunk's text is a    *)
(* sequence of words, " ".join(...) of chunk texts is their concatenation.  *)
(* Fractions are kept as integers: risk weights and confidences are in      *)
(* hundredths (0.9 is 90).                                                  *)
(***************************************************************************)
EXTENDS Integers, Sequences, FiniteSets, TLC

VARIABLES
    doc,            \* the document under analysis: its status and its stored chunks
    run,            \* the analyze_document request in progress
    analysisTable,  \* Analysis records created through AnalysisRepository.create
    clauseTable,    \* Clause records created through ClauseRepository.create
    riskIn,         \* the ComplianceResults handed to the risk scoring engine
    riskOut,        \* what the engines computed from them
    indexed,        \* the documents that have chunks in the vector store
    cache,          \* the Redis keys rag_response:<hash> and their JSON values
    cacheStale,     \* (history) the cached keys written before an in-scope document changed
    ragReq,         \* the last RAG query and its outcome
    comparisons,    \* the rows of the table document_comparisons
    cmp,            \* the POST /compare requests and how far each has got
    cmpStored,      \* (history) the pairs for which a request has run its store step
    mmr,            \* one semantic search: the candidates and the MMR selection so far
    rate,           \* the rate-limit sorted set of one key, the clock and the grants
    ingest,         \* one document under ingestion: its status and its stored chunks
    tenant,         \* one database session: its organization context and the last read
    fn              \* a function under study: its arguments and its result

analysisVars == <<doc, run, analysisTable, clauseTable>>
riskVars == <<riskIn, riskOut>>
ragVars == <<indexed, cache, cacheStale, ragReq>>
cmpVars == <<comparisons, cmp, cmpStored>>
extVars == <<mmr, rate, ingest, tenant, fn>>
coreVars == <<doc, run, analysisTable, clauseTable, riskIn, riskOut, indexed, cache, cacheStale,
              ragReq, comparisons, cmp, cmpStored>>

vars == <<doc, run, analysisTable, clauseTable, riskIn, riskOut, indexed, cache, cacheStale, ragReq,
          comparisons, cmp, cmpStored, mmr, rate, ingest, tenant, fn>>

(***************************************************************************)
(* Bounds of the model.                                                     *)
(***************************************************************************)
MaxChunks == 2
MaxChunkLen == 1
MaxRules == 2

None == "None"

SeqsUpTo(S, n) == UNION {[1..k -> S] : k \in 0..n}

RECURSIVE SumSeq(_)
SumSeq(s) == IF s = <<>> THEN 0 ELSE Head(s) + SumSeq(Tail(s))

RECURSIVE Flatten(_)
Flatten(ss) == IF ss = <<>> THEN <<>> ELSE Head(ss) \o Flatten(Tail(ss))

Min(a, b) == IF a <= b THEN a ELSE b
Max(a, b) == IF a >= b THEN a ELSE b

(***************************************************************************)
(* Regular expressions (Python re, flags=IGNORECASE, no MULTILINE).         *)
(***************************************************************************)
Words == {"indemnify", "shall"}

\* The parse of a pattern string: a literal word sequence, optionally anchored
\* with ^ (start of the searched string) or $ (its end); "(" does not compile.
Regex(pattern) ==
    CASE pattern = "indemnify" -> [valid |-> TRUE, bol |-> FALSE, lit |-> <<"indemnify">>, eol |-> FALSE]
      [] pattern = "shall"     -> [valid |-> TRUE, bol |-> FALSE, lit |-> <<"shall">>, eol |-> FALSE]
      [] pattern = "^shall"    -> [valid |-> TRUE, bol |-> TRUE, lit |-> <<"shall">>, eol |-> FALSE]
      [] pattern = "indemnify$" -> [valid |-> TRUE, bol |-> FALSE, lit |-> <<"indemnify">>, eol |-> TRUE]
      [] OTHER                 -> [valid |-> FALSE, bol |-> FALSE, lit |-> <<>>, eol |-> FALSE]

\* re.compile(pattern) raises re.error on a pattern that is no regular expression
CompileRaises(pattern) == ~Regex(pattern).valid

MatchAt(re, text, i) ==
    /\ i + Len(re.lit) - 1 <= Len(text)
    /\ SubSeq(text, i, i + Len(re.lit) - 1) = re.lit
    /\ re.bol => i = 1
    /\ re.eol => i + Len(re.lit) - 1 = Len(text)

\* regex.finditer(text): the start positions of the non-overlapping matches,
\* scanning from the left
RECURSIVE FindIterFrom(_, _, _)
FindIterFrom(re, text, i) ==
    IF i > Len(text) THEN <<>>
    ELSE IF MatchAt(re, text, i)
         THEN <<i>> \o FindIterFrom(re, text, i + Len(re.lit))
         ELSE FindIterFrom(re, text, i + 1)

FindIter(pattern, text) == FindIterFrom(Regex(pattern), text, 1)

\* match.group() as a string: the matched words
MatchedText(pattern) == Regex(pattern).lit

(***************************************************************************)
(* JSON values of a playbook's rules_json: each carries its Python type.    *)
(***************************************************************************)
JStr(s) == [type |-> "str", val |-> s]
JBool(b) == [type |-> "bool", val |-> b]
JNum(n) == [type |-> "num", val |-> n]
JList(l) == [type |-> "list", val |-> l]

\* One rule of a playbook; risk_weight in hundredths
RuleJson(id, required, patterns, weight, recs) ==
    [id |-> JStr(id), name |-> JStr(id), clause_type |-> JStr("indemnity"),
     required |-> JBool(required),
     patterns |-> JList([i \in 1..Len(patterns) |-> JStr(patterns[i])]),
     risk_weight |-> JNum(weight),
     recommendations |-> JList(recs)]

WithoutField(f, field) == [k \in DOMAIN f \ {field} |-> f[k]]

IndemnityRule ==
    RuleJson("indemnity_clause", TRUE, <<"indemnify">>, 90, <<"Add mutual indemnity clause">>)

WellFormedRules ==
    { IndemnityRule,
      RuleJson("governing_law", TRUE, <<"^shall">>, 50, <<>>),
      RuleJson("force_majeure", FALSE, <<"indemnify$", "shall">>, 50, <<>>),
      RuleJson("liability_cap", TRUE, <<"(">>, 100, <<>>) }

MalformedRules ==
    { WithoutField(IndemnityRule, "patterns"),
      [IndemnityRule EXCEPT !.risk_weight = JNum(150)],
      [IndemnityRule EXCEPT !.required = JStr("yes")] }

RuleCatalog == WellFormedRules \cup MalformedRules

PlaybookJson(rules) == [version |-> JStr("1.0"), name |-> JStr("Standard"), rules |-> JList(rules)]

\* The rules_json documents a stored playbook may hold
PlaybookJsons ==
    { PlaybookJson(rs) : rs \in SeqsUpTo(RuleCatalog, MaxRules) }
    \cup { WithoutField(PlaybookJson(<<r>>), "version") : r \in WellFormedRules }
    \cup { [PlaybookJson(<<>>) EXCEPT !.rules = JStr("none")] }

(***************************************************************************)
(* ComplianceEngine (services/compliance.py)                                *)
(***************************************************************************)
COMPLIANT == "compliant"
NON_COMPLIANT == "non_compliant"
REVIEW_REQUIRED == "review_required"

RiskWeightInRange_NoUpperBound(risk_weight) == 0 <= risk_weight

\* 0 <= rule["risk_weight"] <= 1, the weight in hundredths
RiskWeightInRange(risk_weight) == 0 <= risk_weight /\ risk_weight <= 100

\* _validate_rule_schema: the list of errors of one rule (their kinds)
ValidateRuleSchema(rule) ==
    LET required_fields == <<"id", "name", "clause_type", "required", "patterns", "risk_weight">>
        missing == SelectSeq(required_fields, LAMBDA f : f \notin DOMAIN rule)
        has(f) == f \in DOMAIN rule
        e1 == IF has("id") /\ rule.id.type # "str" THEN <<"id">> ELSE <<>>
        e2 == IF has("name") /\ rule.name.type # "str" THEN <<"name">> ELSE <<>>
        e3 == IF has("clause_type") /\ rule.clause_type.type # "str" THEN <<"clause_type">> ELSE <<>>
        e4 == IF has("required") /\ rule.required.type # "bool" THEN <<"required">> ELSE <<>>
        e5 == IF has("patterns")
              THEN IF rule.patterns.type # "list" THEN <<"patterns">>
                   ELSE IF \E i \in DOMAIN rule.patterns.val : rule.patterns.val[i].type # "str"
                        THEN <<"patterns">> ELSE <<>>
              ELSE <<>>
        e6 == IF has("risk_weight")
              THEN IF rule.risk_weight.type # "num" THEN <<"risk_weight">>
                   ELSE IF ~RiskWeightInRange(rule.risk_weight.val)
                        THEN <<"risk_weight">> ELSE <<>>
              ELSE <<>>
        e7 == IF has("recommendations") /\ rule.recommendations.type # "list"
              THEN <<"recommendations">> ELSE <<>>
    IN  missing \o e1 \o e2 \o e3 \o e4 \o e5 \o e6 \o e7

\* validate_playbook_schema: all the errors; the playbook is valid iff there are none
ValidatePlaybookSchema(rules_json) ==
    LET missing == SelectSeq(<<"version", "name", "rules">>, LAMBDA f : f \notin DOMAIN rules_json)
        ruleErrors ==
            IF "rules" \in DOMAIN rules_json
            THEN IF rules_json.rules.type # "list" THEN <<"rules">>
                 ELSE Flatten([i \in 1..Len(rules_json.rules.val) |->
                                  ValidateRuleSchema(rules_json.rules.val[i])])
            ELSE <<>>
    IN  missing \o ruleErrors

IsValidPlaybook(rules_json) == ValidatePlaybookSchema(rules_json) = <<>>

\* parse_playbook_rules: the ComplianceRule objects of a validated playbook
ParsePlaybookRules(rules_json) ==
    [i \in 1..Len(rules_json.rules.val) |->
        LET rd == rules_json.rules.val[i] IN
        [id |-> rd.id.val, name |-> rd.name.val, clause_type |-> rd.clause_type.val,
         required |-> rd.required.val,
         patterns |-> [j \in 1..Len(rd.patterns.val) |-> rd.patterns.val[j].val],
         risk_weight |-> rd.risk_weight.val,
         recommendations |-> IF "recommendations" \in DOMAIN rd THEN rd.recommendations.val ELSE <<>>]]

legal_keywords ==
    {"shall", "agreement", "contract", "party", "parties",
     "liability", "damages", "breach", "termination", "clause"}

\* a confidence without the base of 0.7
CalculateMatchConfidence_NoBase(pattern, context, matched_text) ==
    Min(100, 2 * Cardinality({k \in legal_keywords : \E i \in DOMAIN context : context[i] = k}))

\* _calculate_match_confidence, in hundredths
CalculateMatchConfidence(pattern, context, matched_text) ==
    LET exact == IF Len(matched_text) = 1 /\ pattern = matched_text[1] THEN 20 ELSE 0
        keyword_matches == Cardinality({k \in legal_keywords : \E i \in DOMAIN context : context[i] = k})
        confidence_boost == Min(10, keyword_matches * 2)
    IN  Min(100, 70 + exact + confidence_boost)

\* text[start:end] around a match: 100 characters on either side, which is at
\* most 100 words
ContextChars == 100

\* _find_pattern_matches: the matches of one pattern, found chunk by chunk
\* (document_text is a parameter the code never reads)
FindPatternMatches(pattern, document_text, chunks) ==
    Flatten([c \in 1..Len(chunks) |->
        LET text == chunks[c].text
            starts == FindIter(pattern, text)
        IN [m \in 1..Len(starts) |->
              LET s == starts[m]
                  e == s + Len(MatchedText(pattern)) - 1
                  context == SubSeq(text, Max(1, s - ContextChars), Min(Len(text), e + ContextChars))
              IN [text |-> context,
                  matched_text |-> MatchedText(pattern),
                  confidence |-> CalculateMatchConfidence(pattern, context, MatchedText(pattern)),
                  page |-> IF chunks[c].page = 0 THEN 1 ELSE chunks[c].page]]])

\* _evaluate_rule raises when re.compile raises on one of the rule's patterns
EvaluateRuleRaises(rule) == \E i \in DOMAIN rule.patterns : CompileRaises(rule.patterns[i])

\* a verdict in which a match of any confidence makes the rule COMPLIANT
RuleVerdict_AnyMatchCompliant(required, risk_weight, confidences) ==
    IF required /\ confidences = <<>>
    THEN [status |-> NON_COMPLIANT, missing_clause |-> TRUE, risk_score |-> risk_weight]
    ELSE [status |-> COMPLIANT, missing_clause |-> FALSE, risk_score |-> 0]

\* _evaluate_rule, "Determine compliance status": status, missing_clause and
\* risk_score from the rule and the confidences of its matches.  risk_weight and
\* confidences are in hundredths, risk_score in points: risk_weight * 100 is
\* the weight in hundredths itself, and risk_weight * 30, * 70 are whole points
\* for the weights that are multiples of 0.1.
RuleVerdict(required, risk_weight, confidences) ==
    LET n == Len(confidences)
        total == SumSeq(confidences)
    IN  IF required /\ n = 0
        THEN [status |-> NON_COMPLIANT, missing_clause |-> TRUE, risk_score |-> risk_weight]
        ELSE IF n > 0
        THEN IF total >= 80 * n
             THEN [status |-> COMPLIANT, missing_clause |-> FALSE, risk_score |-> 0]
             ELSE IF total >= 50 * n
             THEN [status |-> REVIEW_REQUIRED, missing_clause |-> FALSE,
                   risk_score |-> (risk_weight * 30) \div 100]
             ELSE [status |-> NON_COMPLIANT, missing_clause |-> FALSE,
                   risk_score |-> (risk_weight * 70) \div 100]
        ELSE [status |-> COMPLIANT, missing_clause |-> FALSE, risk_score |-> 0]

\* _evaluate_rule: the ComplianceResult of one rule
EvaluateRule(rule, document_text, chunks) ==
    LET perPattern == [i \in 1..Len(rule.patterns) |->
                          FindPatternMatches(rule.patterns[i], document_text, chunks)]
        found == Flatten(perPattern)
        matched_clauses == [i \in 1..Len(found) |->
                               [clause_type |-> rule.clause_type, text |-> found[i].text,
                                confidence |-> found[i].confidence, page |-> found[i].page,
                                matched_rule |-> rule.id]]
        verdict == RuleVerdict(rule.required, rule.risk_weight,
                               [i \in 1..Len(matched_clauses) |-> matched_clauses[i].confidence])
    IN  [rule_id |-> rule.id, rule_name |-> rule.name, status |-> verdict.status,
         matched_clauses |-> matched_clauses, missing_clause |-> verdict.missing_clause,
         risk_score |-> verdict.risk_score,
         recommendations |-> IF verdict.status # COMPLIANT THEN rule.recommendations ELSE <<>>]

\* _calculate_overall_risk_score
CalculateOverallRiskScore(compliance_results) ==
    IF compliance_results = <<>> THEN 0
    ELSE LET total_risk == SumSeq([i \in 1..Len(compliance_results) |-> compliance_results[i].risk_score])
             max_possible_risk == Len(compliance_results) * 100
         IN Min(100, (total_risk * 100) \div max_possible_risk)

\* _determine_compliance_status
DetermineComplianceStatus(compliance_results) ==
    IF \E i \in DOMAIN compliance_results : compliance_results[i].status = NON_COMPLIANT
    THEN NON_COMPLIANT
    ELSE IF \E i \in DOMAIN compliance_results : compliance_results[i].status = REVIEW_REQUIRED
    THEN REVIEW_REQUIRED
    ELSE COMPLIANT


(***************************************************************************)
(* RiskScoringEngine (services/risk_assessment.py)                          *)
(***************************************************************************)
\* _get_factor_weight, in tenths
GetFactorWeight(rule_id) ==
    CASE rule_id = "indemnity_clause" -> 10
      [] rule_id \in {"liability_cap", "intellectual_property", "data_security", "data_ownership"} -> 9
      [] rule_id \in {"termination_clause", "confidentiality_clause",
                      "service_level_agreement", "uptime_guarantee"} -> 8
      [] rule_id \in {"governing_law", "payment_terms", "insurance_requirements"} -> 7
      [] rule_id = "force_majeure" -> 5
      [] rule_id \in {"non_compete", "at_will_employment"} -> 6
      [] OTHER -> 5

\* _apply_risk_multipliers: the multiplier, in hundredths
RiskMultiplier(compliance_results) ==
    LET idx == DOMAIN compliance_results
        critical_missing == {i \in idx : /\ compliance_results[i].missing_clause
                                         /\ compliance_results[i].rule_id \in
                                              {"indemnity_clause", "liability_cap", "data_security"}}
        non_compliant_count == Cardinality({i \in idx : compliance_results[i].status = NON_COMPLIANT})
        low_confidence_matches ==
            {i \in idx : \E m \in DOMAIN compliance_results[i].matched_clauses :
                              compliance_results[i].matched_clauses[m].confidence < 60}
    IN  100 + 20 * Cardinality(critical_missing)
            + (IF non_compliant_count >= 3 THEN 15 ELSE 0)
            + (IF low_confidence_matches # {} THEN 10 ELSE 0)

\* int(base_score * multiplier), base_score = total_weighted_score / total_weight
MultipliedScore(compliance_results) ==
    LET n == Len(compliance_results)
        total_weighted_score ==
            SumSeq([i \in 1..n |-> compliance_results[i].risk_score
                                       * GetFactorWeight(compliance_results[i].rule_id)])
        total_weight == SumSeq([i \in 1..n |-> GetFactorWeight(compliance_results[i].rule_id)])
    IN  IF total_weight > 0
        THEN (total_weighted_score * RiskMultiplier(compliance_results)) \div (total_weight * 100)
        ELSE 0

NormalizeScore_Uncapped(multiplied_score) == Max(0, multiplied_score)

\* overall_score = min(100, max(0, int(multiplied_score)))
NormalizeScore(multiplied_score) == Min(100, Max(0, multiplied_score))

\* _get_risk_category
GetRiskCategory(score) ==
    IF score >= 80 THEN "critical"
    ELSE IF score >= 60 THEN "high"
    ELSE IF score >= 30 THEN "medium"
    ELSE "low"

\* _calculate_confidence, in ten-thousandths
CalculateConfidence(compliance_results) ==
    LET n == Len(compliance_results)
        counts == [i \in 1..n |-> Len(compliance_results[i].matched_clauses)]
        total_matches == SumSeq(counts)
        sums == [i \in 1..n |->
                    SumSeq([m \in 1..counts[i] |-> compliance_results[i].matched_clauses[m].confidence])]
        adjustment == IF total_matches > 0
                      THEN ((SumSeq(sums) - 70 * total_matches) * 20) \div total_matches
                      ELSE 0
    IN  IF n = 0 THEN 0
        ELSE Min(10000, Max(0, 8000 + Min(1500, n * 200) + adjustment))

\* calculate_risk_score
CalculateRiskScore(compliance_results) ==
    IF compliance_results = <<>>
    THEN [overall_score |-> 0, category |-> "low", confidence |-> 10000, trend |-> None]
    ELSE LET overall_score == NormalizeScore(MultipliedScore(compliance_results))
         IN [overall_score |-> overall_score,
             category |-> GetRiskCategory(overall_score),
             confidence |-> CalculateConfidence(compliance_results),
             trend |-> None]


\* calculate_risk_trend over the stored analyses of the document, oldest first
\* (all of them lie inside the lookback window)
CalculateRiskTrend(analyses) ==
    IF Len(analyses) < 2 THEN None
    ELSE LET score_change == analyses[Len(analyses)].risk_score - analyses[1].risk_score
         IN IF score_change > 10 THEN "deteriorating"
            ELSE IF score_change < -10 THEN "improving"
            ELSE "stable"

\* create_risk_assessment: the risk score with its trend
CreateRiskAssessment(analysis_result, analyses) ==
    [CalculateRiskScore(analysis_result.compliance_results) EXCEPT !.trend = CalculateRiskTrend(analyses)]

(***************************************************************************)
(* The analyze endpoint (routers/analysis.py analyze_document), as the      *)
(* steps of one request.                                                    *)
(***************************************************************************)
ChunkTexts == UNION {[1..k -> Words] : k \in 1..MaxChunkLen}
ChunkSeqs == SeqsUpTo({[text |-> t, page |-> 1] : t \in ChunkTexts}, MaxChunks)
Documents == {[status |-> st, chunks |-> cs] : st \in {"completed", "processing"}, cs \in ChunkSeqs}

\* " ".join([chunk.text for chunk in chunks])
DocumentText(chunks) == Flatten([i \in 1..Len(chunks) |-> chunks[i].text])

IdleRun ==
    [pc |-> "idle", playbook |-> None, rules |-> <<>>, results |-> <<>>, phases |-> <<>>,
     analysis |-> None, assessment |-> None, http |-> 0]

AnalysisIdle ==
    /\ doc = [status |-> "completed", chunks |-> <<>>]
    /\ run = IdleRun
    /\ analysisTable = <<>>
    /\ clauseTable = <<>>

RiskIdle == riskIn = <<>> /\ riskOut = [done |-> FALSE]

RagDocs == {"d1", "d2"}

NoRequest == [called |-> FALSE]

MaxRequests == 2

IdleRequest == [pc |-> "idle"]

CmpIdle ==
    /\ comparisons = {}
    /\ cmp = [r \in 1..MaxRequests |-> IdleRequest]
    /\ cmpStored = {}

MmrIdle == mmr = [pc |-> "idle"]

RateIdle == rate = [pc |-> "idle"]

IngestIdle == ingest = [pc |-> "idle"]

TenantIdle == tenant = [pc |-> "idle"]

FnIdle == fn = [op |-> "none"]

RagIdle ==
    /\ indexed = {}
    /\ cache = {}
    /\ cacheStale = {}
    /\ ragReq = NoRequest

InitAnalysis ==
    /\ doc \in Documents
    /\ run = IdleRun
    /\ analysisTable = <<>>
    /\ clauseTable = <<>>
    /\ RiskIdle
    /\ RagIdle
    /\ CmpIdle
    /\ MmrIdle /\ RateIdle /\ IngestIdle /\ TenantIdle /\ FnIdle

\* What playbook_repo.get_by_id / get_default returns: a stored playbook or None
PlaybookLookups ==
    {[found |-> TRUE, playbook |-> [rules_json |-> pb]] : pb \in PlaybookJsons}
    \cup {[found |-> FALSE]}

\* The request arrives; the router checks the document, the engine fetches and
\* validates the playbook and parses its rules.  An HTTPException raised inside
\* the router's try block is caught by its "except Exception" and becomes a 500.
AnalyzeRequest(lookup) ==
    /\ run.pc = "idle"
    /\ run' = IF doc.status # "completed"
              THEN [run EXCEPT !.pc = "done", !.http = 500]
              ELSE IF ~lookup.found
              THEN [run EXCEPT !.pc = "done", !.http = 400]
              ELSE LET playbook == lookup.playbook.rules_json IN
                   IF ~IsValidPlaybook(playbook)
                   THEN [run EXCEPT !.pc = "done", !.http = 400, !.playbook = playbook,
                                    !.phases = <<"SCHEMA_VALIDATION">>]
                   ELSE [run EXCEPT !.pc = "evaluating", !.playbook = playbook,
                                    !.rules = ParsePlaybookRules(playbook),
                                    !.phases = <<"SCHEMA_VALIDATION", "RULE_EVALUATION">>]
    /\ UNCHANGED <<doc, analysisTable, clauseTable, riskVars, ragVars, cmpVars, extVars>>

\* One turn of the loop "for rule in rules": an exception of _evaluate_rule is
\* not caught by the engine and reaches the router, which answers 500.
EvaluateNextRule ==
    /\ run.pc = "evaluating"
    /\ Len(run.results) < Len(run.rules)
    /\ LET rule == run.rules[Len(run.results) + 1]
       IN run' = IF EvaluateRuleRaises(rule)
                 THEN [run EXCEPT !.pc = "done", !.http = 500]
                 ELSE [run EXCEPT !.results = Append(@, EvaluateRule(rule, DocumentText(doc.chunks), doc.chunks))]
    /\ UNCHANGED <<doc, analysisTable, clauseTable, riskVars, ragVars, cmpVars, extVars>>

\* The rest of ComplianceEngine.analyze_document: the AnalysisResult
Aggregate ==
    /\ run.pc = "evaluating"
    /\ Len(run.results) = Len(run.rules)
    /\ run' = [run EXCEPT !.pc = "aggregated",
                          !.phases = Append(@, "AGGREGATION"),
                          !.analysis =
                             [overall_risk_score |-> CalculateOverallRiskScore(run.results),
                              compliance_status |-> DetermineComplianceStatus(run.results),
                              compliance_results |-> run.results,
                              missing_clauses |->
                                 SelectSeq([i \in 1..Len(run.results) |-> run.results[i]],
                                           LAMBDA r : r.missing_clause /\ r.status = NON_COMPLIANT)]]
    /\ UNCHANGED <<doc, analysisTable, clauseTable, riskVars, ragVars, cmpVars, extVars>>

\* risk_engine.create_risk_assessment, before the analysis is saved
AssessRisk ==
    /\ run.pc = "aggregated"
    /\ run' = [run EXCEPT !.pc = "assessed",
                          !.assessment = CreateRiskAssessment(run.analysis, analysisTable)]
    /\ UNCHANGED <<doc, analysisTable, clauseTable, riskVars, ragVars, cmpVars, extVars>>

\* The Clause records of save_analysis_result: one per matched clause
ClausesOf(compliance_results) ==
    Flatten([i \in 1..Len(compliance_results) |->
                [m \in 1..Len(compliance_results[i].matched_clauses) |->
                    LET mc == compliance_results[i].matched_clauses[m]
                    IN [clause_type |-> mc.clause_type, text |-> mc.text,
                        confidence |-> mc.confidence, page |-> mc.page]]])

\* compliance_engine.save_analysis_result and the response
SaveAnalysisResult ==
    /\ run.pc = "assessed"
    /\ analysisTable' = Append(analysisTable, [risk_score |-> run.analysis.overall_risk_score])
    /\ clauseTable' = clauseTable \o ClausesOf(run.analysis.compliance_results)
    /\ run' = [run EXCEPT !.pc = "done", !.http = 200, !.phases = Append(@, "PERSISTED")]
    /\ UNCHANGED <<doc, riskVars, ragVars, cmpVars, extVars>>

NextAnalysis ==
    \/ \E lookup \in PlaybookLookups : AnalyzeRequest(lookup)
    \/ EvaluateNextRule
    \/ Aggregate
    \/ AssessRisk
    \/ SaveAnalysisResult

SpecAnalysis == InitAnalysis /\ [][NextAnalysis]_vars


(***************************************************************************)
(* Claims about the compliance engine and the analyze endpoint.             *)
(***************************************************************************)
IsPrefix(s, t) == Len(s) <= Len(t) /\ SubSeq(t, 1, Len(s)) = s

AnalysisPhases == <<"SCHEMA_VALIDATION", "RULE_EVALUATION", "AGGREGATION", "PERSISTED">>

\* The playbooks every rule of which has all its fields, well typed and in range
WellFormedPlaybooks == {PlaybookJson(rs) : rs \in SeqsUpTo(WellFormedRules, MaxRules)}

NoMatchInDocumentText(rule) ==
    \A p \in DOMAIN rule.patterns :
        Regex(rule.patterns[p]).valid /\ FindIter(rule.patterns[p], DocumentText(doc.chunks)) = <<>>

\* C1: a required rule none of whose patterns matches anywhere in the document
\* text gets status NON_COMPLIANT, missing_clause = True and risk_score =
\* risk_weight x 100, however the text is split into chunks.
C1_RequiredRuleWithoutMatch ==
    \A i \in DOMAIN run.results :
        (run.rules[i].required /\ NoMatchInDocumentText(run.rules[i]))
            => /\ run.results[i].status = NON_COMPLIANT
               /\ run.results[i].missing_clause
               /\ run.results[i].risk_score = run.rules[i].risk_weight

\* C3: a run passes through schema validation, rule evaluation, aggregation and
\* persistence in that order; records are created only by the persistence
\* phase; a playbook that fails schema validation ends the run with an error
\* before any rule is evaluated and with no Analysis and no Clause record.
C3_PhaseOrderAndFailFast ==
    /\ IsPrefix(run.phases, AnalysisPhases)
    /\ (analysisTable # <<>> \/ clauseTable # <<>>) => run.phases = AnalysisPhases
    /\ (run.phases # <<>> /\ run.playbook \notin WellFormedPlaybooks)
          => /\ run.pc = "done"
             /\ run.http = 400
             /\ run.phases = <<"SCHEMA_VALIDATION">>
             /\ run.results = <<>>
             /\ analysisTable = <<>>
             /\ clauseTable = <<>>

\* C3 witness: a malformed playbook has been rejected at schema validation
C3_Witness ==
    /\ run.pc = "done"
    /\ run.phases = <<"SCHEMA_VALIDATION">>
    /\ run.playbook \notin WellFormedPlaybooks
    /\ run.http = 400

\* C10: when evaluating one rule fails, every other rule is still evaluated and
\* the failing rule is reported REVIEW_REQUIRED with no matched clause, the
\* analysis is not aborted.
C10_RuleFailureIsIsolated ==
    (run.pc = "done" /\ Len(run.phases) >= 2)
        => /\ Len(run.results) = Len(run.rules)
           /\ run.http = 200
           /\ \A i \in DOMAIN run.results :
                 EvaluateRuleRaises(run.rules[i])
                    => /\ run.results[i].status = REVIEW_REQUIRED
                       /\ run.results[i].matched_clauses = <<>>



(***************************************************************************)
(* Risk scoring of arbitrary ComplianceResult lists                         *)
(***************************************************************************)
MaxResults == 3

\* ComplianceResult (services/compliance.py); confidences in hundredths
Result(rule_id, status, missing_clause, risk_score, confidences) ==
    [rule_id |-> rule_id, rule_name |-> rule_id, status |-> status,
     matched_clauses |-> [i \in DOMAIN confidences |->
                            [clause_id |-> None, text |-> <<>>, confidence |-> confidences[i],
                             page |-> None, risk_level |-> "low", matched_rule |-> rule_id]],
     missing_clause |-> missing_clause, risk_score |-> risk_score, recommendations |-> <<>>]

RiskResultCatalog ==
    { Result("indemnity_clause", NON_COMPLIANT, TRUE, 100, <<>>),
      Result("liability_cap", NON_COMPLIANT, TRUE, 100, <<>>),
      Result("data_security", NON_COMPLIANT, TRUE, 80, <<>>),
      Result("termination_clause", NON_COMPLIANT, TRUE, 60, <<>>),
      Result("custom_rule", NON_COMPLIANT, TRUE, 79, <<>>),
      Result("governing_law", NON_COMPLIANT, FALSE, 59, <<40>>),
      Result("governing_law", REVIEW_REQUIRED, FALSE, 30, <<72>>),
      Result("payment_terms", REVIEW_REQUIRED, FALSE, 29, <<72, 70>>),
      Result("force_majeure", COMPLIANT, FALSE, 0, <<90>>),
      Result("non_compete", COMPLIANT, FALSE, 0, <<>>) }

InitRisk ==
    /\ riskIn \in SeqsUpTo(RiskResultCatalog, MaxResults)
    /\ riskOut = [done |-> FALSE]
    /\ AnalysisIdle
    /\ RagIdle
    /\ CmpIdle
    /\ MmrIdle /\ RateIdle /\ IngestIdle /\ TenantIdle /\ FnIdle

\* RiskScoringEngine.calculate_risk_score and
\* ComplianceEngine._calculate_overall_risk_score applied to the same results
ScoreRisk ==
    /\ ~riskOut.done
    /\ riskOut' = [done |-> TRUE,
                   risk_score |-> CalculateRiskScore(riskIn),
                   overall_risk_score |-> CalculateOverallRiskScore(riskIn)]
    /\ UNCHANGED <<riskIn, analysisVars, ragVars, cmpVars, extVars>>

NextRisk == ScoreRisk

SpecRisk == InitRisk /\ [][NextRisk]_vars

\* C2: for every list of ComplianceResults with risk scores in 0..100 the
\* overall_score of calculate_risk_score lies in 0..100 after the multipliers,
\* its category is critical exactly from 80, high for 60..79, medium for
\* 30..59 and low below 30, and ComplianceEngine's overall_risk_score lies in
\* 0..100 as well.
C2_RiskScoreBoundsAndCategory ==
    riskOut.done =>
        LET score == riskOut.risk_score.overall_score
            category == riskOut.risk_score.category
        IN  /\ \A i \in DOMAIN riskIn : riskIn[i].risk_score \in 0..100
            /\ score \in 0..100
            /\ (category = "critical") <=> (score >= 80)
            /\ (category = "high") <=> (score \in 60..79)
            /\ (category = "medium") <=> (score \in 30..59)
            /\ (category = "low") <=> (score < 30)
            /\ riskOut.overall_risk_score \in 0..100

\* the multipliers pushed the weighted score above 100 and the result is 100
C2_Witness ==
    /\ riskOut.done
    /\ MultipliedScore(riskIn) > 100
    /\ RiskMultiplier(riskIn) > 100
    /\ riskOut.risk_score.overall_score = 100
    /\ riskOut.risk_score.category = "critical"

(***************************************************************************)
(* Retrieval-augmented answering (services/rag.py)                          *)
(***************************************************************************)
Range(seq) == {seq[i] : i \in DOMAIN seq}

DocOrder == <<"d1", "d2">>

\* sorted(document_ids)
SortedIds(ids) == SelectSeq(DocOrder, LAMBDA d : d \in ids)

\* ClaudeAPIService.model_config and fallback_model
model_config ==
    [free |-> "claude-3-haiku-20240307",
     pro |-> "claude-3-sonnet-20240229",
     enterprise |-> "claude-3-opus-20240229"]

fallback_model == "claude-3-sonnet-20240229"

Plans == {"free", "pro", "enterprise", "Enterprise", "trial"}

\* str.lower() on the plan names in use
Lower(plan) == IF plan = "Enterprise" THEN "enterprise" ELSE plan

\* _get_model_for_plan
GetModelForPlan(plan) ==
    IF Lower(plan) \in DOMAIN model_config THEN model_config[Lower(plan)] ELSE fallback_model

\* what _make_api_call can do: raise, or return one of two replies
ApiFailure == [ok |-> FALSE, text |-> "failed"]

ApiOutcomes == {ApiFailure, [ok |-> TRUE, text |-> "cited"], [ok |-> TRUE, text |-> "hedged"]}

\* ClaudeAPIService._calculate_confidence, in hundredths: the reply "cited"
\* names a page and is longer than 200 characters, the reply "hedged" is
\* short and says "may be"
ClaudeConfidence(text) ==
    LET cites == text = "cited"
        detailed == text = "cited"
        uncertain == text = "hedged"
        confidence == 50 + (IF cites THEN 20 ELSE 0) + (IF detailed THEN 10 ELSE 0)
                         - (IF uncertain THEN 10 ELSE 0)
    IN  Max(0, Min(100, confidence))

GenerateResponse_AlwaysFallback(plan, primary_call, fallback_call) ==
    LET primary_model == GetModelForPlan(plan)
    IN  IF primary_call.ok
        THEN [raised |-> FALSE, text |-> primary_call.text, model_used |-> primary_model,
              confidence |-> ClaudeConfidence(primary_call.text), calls |-> <<primary_model>>]
        ELSE [raised |-> ~fallback_call.ok, text |-> fallback_call.text,
              model_used |-> fallback_model,
              confidence |-> ClaudeConfidence(fallback_call.text),
              calls |-> <<primary_model, fallback_model>>]

\* ClaudeAPIService.generate_response; calls lists the models _make_api_call
\* was invoked with, in order
GenerateResponse(plan, primary_call, fallback_call) ==
    LET primary_model == GetModelForPlan(plan)
    IN  IF primary_call.ok
        THEN [raised |-> FALSE, text |-> primary_call.text, model_used |-> primary_model,
              confidence |-> ClaudeConfidence(primary_call.text), calls |-> <<primary_model>>]
        ELSE IF primary_model # fallback_model
        THEN IF fallback_call.ok
             THEN [raised |-> FALSE, text |-> fallback_call.text, model_used |-> fallback_model,
                   confidence |-> ClaudeConfidence(fallback_call.text),
                   calls |-> <<primary_model, fallback_model>>]
             ELSE [raised |-> TRUE, text |-> "failed", model_used |-> fallback_model,
                   confidence |-> 0, calls |-> <<primary_model, fallback_model>>]
        ELSE [raised |-> TRUE, text |-> "failed", model_used |-> primary_model,
              confidence |-> 0, calls |-> <<primary_model>>]

\* The collaborators of one query.  The embedding call raises; or the
\* similarity search raises; or no chunk is similar to the query; or chunks
\* are similar, each model call returns a reply or raises, and the citation
\* extraction succeeds or raises.  A collaborator that the code does not
\* reach in a scenario is one that would have succeeded.
Healthy ==
    [embedding |-> "ok", similarity_search |-> "ok", relevant |-> TRUE,
     primary_call |-> [ok |-> TRUE, text |-> "cited"],
     fallback_call |-> [ok |-> TRUE, text |-> "cited"], extract_citations |-> "ok"]

Envs ==
    {[Healthy EXCEPT !.embedding = "fail"],
     [Healthy EXCEPT !.similarity_search = "fail"],
     [Healthy EXCEPT !.relevant = FALSE]}
    \cup {[Healthy EXCEPT !.primary_call = p, !.fallback_call = f, !.extract_citations = c] :
             p \in ApiOutcomes, f \in ApiOutcomes, c \in {"ok", "fail"}}

\* document_ids of a request; <<>> stands for both None and []
DocIdLists == {<<>>, <<"d1">>, <<"d1", "d2">>, <<"d2", "d1">>}

\* the documents a search covers
Scope(document_ids) == IF document_ids = <<>> THEN RagDocs ELSE Range(document_ids)

\* SemanticSearchService.search: the documents with a chunk above the threshold
Search(document_ids, env, index) ==
    IF env.embedding = "fail" THEN [raised |-> TRUE, error |-> "embedding", results |-> <<>>]
    ELSE IF env.similarity_search = "fail" THEN [raised |-> TRUE, error |-> "search", results |-> <<>>]
    ELSE [raised |-> FALSE, error |-> "",
          results |-> IF env.relevant THEN SortedIds(Scope(document_ids) \cap index) ELSE <<>>]

NoResultsResponse ==
    [answer |-> [kind |-> "no_results", detail |-> ""], citations |-> <<>>,
     confidence |-> 0, model_used |-> "none"]

\* the RAGResponse of the except branch of RAGService.query
ErrorResponse(e) ==
    [answer |-> [kind |-> "error", detail |-> e], citations |-> <<>>,
     confidence |-> 0, model_used |-> "error"]

QueryBody_NoEmptyCheck(plan, document_ids, env, index) ==
    LET s == Search(document_ids, env, index)
        g == GenerateResponse(plan, env.primary_call, env.fallback_call)
    IN  IF s.raised
        THEN [raised |-> TRUE, error |-> s.error, response |-> ErrorResponse(s.error), calls |-> <<>>]
        ELSE IF g.raised
        THEN [raised |-> TRUE, error |-> "llm", response |-> ErrorResponse("llm"), calls |-> g.calls]
        ELSE [raised |-> FALSE, error |-> "",
              response |-> [answer |-> [kind |-> "generated", detail |-> g.text],
                            citations |-> s.results, confidence |-> g.confidence,
                            model_used |-> g.model_used],
              calls |-> g.calls]

\* the try block of RAGService.query: search, the empty-result answer,
\* context assembly, generation, citation extraction
QueryBody(plan, document_ids, env, index) ==
    LET s == Search(document_ids, env, index)
        g == GenerateResponse(plan, env.primary_call, env.fallback_call)
    IN  IF s.raised
        THEN [raised |-> TRUE, error |-> s.error, response |-> ErrorResponse(s.error), calls |-> <<>>]
        ELSE IF s.results = <<>>
        THEN [raised |-> FALSE, error |-> "", response |-> NoResultsResponse, calls |-> <<>>]
        ELSE IF g.raised
        THEN [raised |-> TRUE, error |-> "llm", response |-> ErrorResponse("llm"), calls |-> g.calls]
        ELSE IF env.extract_citations = "fail"
        THEN [raised |-> TRUE, error |-> "citations", response |-> ErrorResponse("citations"),
              calls |-> g.calls]
        ELSE [raised |-> FALSE, error |-> "",
              response |-> [answer |-> [kind |-> "generated", detail |-> g.text],
                            citations |-> s.results, confidence |-> g.confidence,
                            model_used |-> g.model_used],
              calls |-> g.calls]

RagServiceQuery_Unguarded(plan, document_ids, env, index) ==
    QueryBody(plan, document_ids, env, index)

\* RAGService.query: the try block, and the except branch that turns every
\* exception into a degraded response
RagServiceQuery(plan, document_ids, env, index) ==
    LET b == QueryBody(plan, document_ids, env, index)
    IN  IF b.raised
        THEN [raised |-> FALSE, error |-> b.error, response |-> ErrorResponse(b.error),
              calls |-> b.calls]
        ELSE b

(***************************************************************************)
(* The RAG response cache (services/cache.py) and POST /rag/query           *)
(***************************************************************************)
OrgId == "org1"

SimilarityThreshold == 70

\* the query texts of the requests, and query.lower().strip()
Queries == {"What is the term?", " what is the term? "}

Normalise(query) == "what is the term?"

\* the cache_data dictionary hashed by _generate_cache_key; the key is
\* identified with the dictionary it is the digest of
CacheKey(query, org_id, document_ids, similarity_threshold) ==
    [query |-> Normalise(query), org_id |-> org_id,
     document_ids |-> SortedIds(Range(document_ids)),
     similarity_threshold |-> similarity_threshold]

\* the JSON value set_rag_response stores: response.dict() and cache_key
\* (the time stamps are left out)
CachedData(response, cache_key) ==
    [answer |-> response.answer, citations |-> response.citations,
     confidence |-> response.confidence, model_used |-> response.model_used,
     cache_key |-> cache_key]

RedisHas(key) == \E e \in cache : e.key = key

\* setex
RedisSet(key, value) == {e \in cache : e.key # key} \cup {[key |-> key, value |-> value]}

\* the test of invalidate_document_cache on one cached value:
\* data.get("org_id") == org_id and document_id in (data.get("document_ids") or [])
InvolvesDocument(data, org_id, document_id) ==
    /\ "org_id" \in DOMAIN data
    /\ data.org_id = org_id
    /\ "document_ids" \in DOMAIN data
    /\ document_id \in Range(data.document_ids)

\* the scope of a cached query includes the document
InScope(key, document_id) == document_id \in Scope(key.document_ids)

InitRag ==
    /\ RagIdle
    /\ AnalysisIdle
    /\ RiskIdle
    /\ CmpIdle
    /\ MmrIdle /\ RateIdle /\ IngestIdle /\ TenantIdle /\ FnIdle

\* DocumentProcessor.process_document as the vector store and the cache see
\* it: the chunks of the document are written; no cache key is touched
ProcessDocument ==
    \E d \in RagDocs :
        /\ indexed' = indexed \cup {d}
        /\ cacheStale' = cacheStale \cup {e.key : e \in {c \in cache : InScope(c.key, d)}}
        /\ UNCHANGED <<cache, ragReq, analysisVars, riskVars, cmpVars, extVars>>

\* RAGService.query called with any plan
ServiceQuery ==
    \E plan \in Plans, document_ids \in DocIdLists, env \in Envs :
        /\ ragReq' = [called |-> TRUE, plan |-> plan, document_ids |-> document_ids,
                      env |-> env, index |-> indexed,
                      outcome |-> RagServiceQuery(plan, document_ids, env, indexed)]
        /\ UNCHANGED <<indexed, cache, cacheStale, analysisVars, riskVars, cmpVars, extVars>>

NextRagService == ServiceQuery \/ ProcessDocument

SpecRagService == InitRag /\ [][NextRagService]_vars

\* request.document_ids of POST /rag/query: lists of UUID strings, or one
\* string that is no UUID
RequestIdLists == {<<>>, <<"d1">>, <<"d2", "d1">>, <<"not-a-uuid">>}

\* POST /rag/query (rag_query): rate limit, id conversion, cache lookup,
\* RAGService.query with plan "pro", set_rag_response.  The verdict of the
\* rate limiter and the availability of Redis are inputs.
RagQueryEndpoint ==
    /\ \E document_ids \in RequestIdLists :
       \E outcome \in {RagServiceQuery("pro", document_ids, env, indexed) : env \in Envs} :
       \E query \in Queries, is_allowed \in BOOLEAN, redis_up \in BOOLEAN :
          LET cache_key == CacheKey(query, OrgId, document_ids, SimilarityThreshold)
          IN  IF ~is_allowed
              THEN /\ ragReq' = [called |-> TRUE, http |-> 429, from_cache |-> FALSE, stale |-> FALSE]
                   /\ UNCHANGED <<cache, cacheStale>>
              ELSE IF ~(Range(document_ids) \subseteq RagDocs)
              THEN /\ ragReq' = [called |-> TRUE, http |-> 400, from_cache |-> FALSE, stale |-> FALSE]
                   /\ UNCHANGED <<cache, cacheStale>>
              ELSE IF redis_up /\ RedisHas(cache_key)
              THEN /\ ragReq' = [called |-> TRUE, http |-> 200, from_cache |-> TRUE,
                                 stale |-> cache_key \in cacheStale]
                   /\ UNCHANGED <<cache, cacheStale>>
              ELSE /\ ragReq' = [called |-> TRUE, http |-> 200, from_cache |-> FALSE, stale |-> FALSE]
                   /\ IF redis_up
                      THEN /\ cache' = RedisSet(cache_key, CachedData(outcome.response, cache_key))
                           /\ cacheStale' = cacheStale \ {cache_key}
                      ELSE UNCHANGED <<cache, cacheStale>>
    /\ UNCHANGED <<indexed, analysisVars, riskVars, cmpVars, extVars>>

\* CacheService.invalidate_document_cache; no request handler and no step of
\* the document pipeline calls it
InvalidateDocumentCache ==
    \E document_id \in RagDocs, redis_up \in BOOLEAN :
        LET deleted == IF redis_up
                       THEN {e \in cache : InvolvesDocument(e.value, OrgId, document_id)}
                       ELSE {}
        IN  /\ cache' = cache \ deleted
            /\ cacheStale' = cacheStale \ {e.key : e \in deleted}
            /\ UNCHANGED <<indexed, ragReq, analysisVars, riskVars, cmpVars, extVars>>

\* the ttl_seconds = 3600 of a key run out
ExpireCacheEntry ==
    \E e \in cache :
        /\ cache' = cache \ {e}
        /\ cacheStale' = cacheStale \ {e.key}
        /\ UNCHANGED <<indexed, ragReq, analysisVars, riskVars, cmpVars, extVars>>

NextRag == RagQueryEndpoint \/ ProcessDocument \/ InvalidateDocumentCache \/ ExpireCacheEntry

SpecRag == InitRag /\ [][NextRag]_vars

(***************************************************************************)
(* Properties of RAGService.query and generate_response                     *)
(***************************************************************************)
\* the last query got as far as the similarity search, which found nothing /
\* found chunks
SearchCameBackEmpty ==
    /\ ragReq.called
    /\ ragReq.env.embedding = "ok"
    /\ ragReq.env.similarity_search = "ok"
    /\ (~ragReq.env.relevant \/ Scope(ragReq.document_ids) \cap ragReq.index = {})

SearchFoundChunks ==
    /\ ragReq.called
    /\ ragReq.env.embedding = "ok"
    /\ ragReq.env.similarity_search = "ok"
    /\ ragReq.env.relevant
    /\ Scope(ragReq.document_ids) \cap ragReq.index # {}

\* C4: when the semantic search returns no results (a query against
\* documents without indexed chunks included) the query returns the fixed
\* answer with confidence 0.0 and no citations, and no model call is made.
C4_NoResultsNoLLM ==
    SearchCameBackEmpty =>
        /\ ~ragReq.outcome.raised
        /\ ragReq.outcome.response.answer = [kind |-> "no_results", detail |-> ""]
        /\ ragReq.outcome.response.confidence = 0
        /\ ragReq.outcome.response.citations = <<>>
        /\ ragReq.outcome.calls = <<>>

\* a query that would match, against a document whose chunks are not indexed
C4_Witness ==
    /\ SearchCameBackEmpty
    /\ ragReq.env.relevant
    /\ ragReq.document_ids = <<"d1">>
    /\ ragReq.index = {"d2"}
    /\ ragReq.env.primary_call.ok
    /\ ragReq.outcome.response.model_used = "none"

\* C5: query never raises; when the embedding call, the search, or the model
\* call on the primary and on the fallback model fails, it returns a response
\* whose answer reports the failure, with confidence 0.0 and no citations.
C5_QueryNeverRaises ==
    ragReq.called =>
        /\ ~ragReq.outcome.raised
        /\ LET failure ==
                   IF ragReq.env.embedding = "fail" THEN "embedding"
                   ELSE IF ragReq.env.similarity_search = "fail" THEN "search"
                   ELSE IF /\ SearchFoundChunks
                           /\ ~ragReq.env.primary_call.ok
                           /\ ~ragReq.env.fallback_call.ok THEN "llm"
                   ELSE "none"
           IN  failure # "none" =>
                   /\ ragReq.outcome.response.answer = [kind |-> "error", detail |-> failure]
                   /\ ragReq.outcome.response.confidence = 0
                   /\ ragReq.outcome.response.citations = <<>>

\* both models were tried and both failed
C5_Witness ==
    /\ SearchFoundChunks
    /\ ragReq.plan = "enterprise"
    /\ ~ragReq.env.primary_call.ok
    /\ ~ragReq.env.fallback_call.ok
    /\ Len(ragReq.outcome.calls) = 2
    /\ ~ragReq.outcome.raised
    /\ ragReq.outcome.response.model_used = "error"

\* C6 as stated: for every plan, when the call to the primary model fails,
\* exactly one further attempt is made, with the fallback model; no query
\* makes more than two model calls.
C6_OneFallbackForEveryPlan ==
    /\ ragReq.called => Len(ragReq.outcome.calls) <= 2
    /\ (SearchFoundChunks /\ ~ragReq.env.primary_call.ok) =>
           /\ Len(ragReq.outcome.calls) = 2
           /\ ragReq.outcome.calls[2] = "claude-3-sonnet-20240229"

\* C6 amended: when the call to the primary model fails, one further attempt
\* is made with the fallback model for the plans whose model is another one
\* (free, enterprise); for pro and for unknown plans, whose model is the
\* fallback model itself, no further attempt is made and the error surfaces
\* after one call; no query makes more than two model calls.
C6_FallbackOnlyToAnotherModel ==
    /\ ragReq.called => Len(ragReq.outcome.calls) <= 2
    /\ (SearchFoundChunks /\ ~ragReq.env.primary_call.ok) =>
           IF ragReq.plan \in {"free", "enterprise", "Enterprise"}
           THEN /\ Len(ragReq.outcome.calls) = 2
                /\ ragReq.outcome.calls[1] # "claude-3-sonnet-20240229"
                /\ ragReq.outcome.calls[2] = "claude-3-sonnet-20240229"
                /\ (ragReq.env.fallback_call.ok /\ ragReq.env.extract_citations = "ok") =>
                       ragReq.outcome.response.model_used = "claude-3-sonnet-20240229"
           ELSE /\ ragReq.outcome.calls = <<"claude-3-sonnet-20240229">>
                /\ ragReq.outcome.response.model_used = "error"

\* the primary model of the free plan failed and the fallback answered
C6_Witness ==
    /\ SearchFoundChunks
    /\ ragReq.plan = "free"
    /\ ~ragReq.env.primary_call.ok
    /\ ragReq.env.fallback_call.ok
    /\ ragReq.env.extract_citations = "ok"
    /\ ragReq.outcome.calls = <<"claude-3-haiku-20240307", "claude-3-sonnet-20240229">>
    /\ ragReq.outcome.response.answer.kind = "generated"

\* C9: after a document is modified or reprocessed, every cached response
\* whose scope includes it is invalidated, so that a later identical query
\* is never answered from a cache entry written before the change.
C9_NoAnswerFromStaleEntry ==
    (ragReq.called /\ ragReq.from_cache) => ~ragReq.stale

(***************************************************************************)
(* Document comparison (services/document_comparison.py, POST /compare)     *)
(***************************************************************************)
\* the documents of the tenant, and an id no document has
CmpDocs == {"A", "B"}

CmpIds == {"A", "B", "Z"}

\* DocumentComparisonRepository.get_by_documents: the rows of the pair in
\* either order; scalar_one_or_none raises on more than one row
GetByDocuments(document_a_id, document_b_id, org_id) ==
    LET rows == {row \in comparisons :
                    /\ row.org_id = org_id
                    /\ \/ row.document_a_id = document_a_id /\ row.document_b_id = document_b_id
                       \/ row.document_a_id = document_b_id /\ row.document_b_id = document_a_id}
    IN  [raised |-> Cardinality(rows) > 1, found |-> Cardinality(rows) = 1, rows |-> rows]

\* the ComparisonResult compare_documents builds: the changes, the similarity
\* score, the risk assessment and the summary are computed from document A
\* as the baseline and document B as the revision, and are identified here
\* with that ordered pair
ComputeComparison(document_a_id, document_b_id) ==
    [document_a_id |-> document_a_id, document_b_id |-> document_b_id,
     computed_from |-> <<document_a_id, document_b_id>>]

\* _parse_stored_comparison
ParseStoredComparison(stored_comparison) ==
    [document_a_id |-> stored_comparison.document_a_id,
     document_b_id |-> stored_comparison.document_b_id,
     computed_from |-> stored_comparison.comparison_result]

\* BaseRepository.create(self, **kwargs): a call with positional arguments
\* raises TypeError before any instance is built; a call with keyword
\* arguments adds one row
RepositoryCreate(positional, kwargs, id) ==
    IF positional # <<>>
    THEN [raised |-> TRUE, table |-> comparisons]
    ELSE [raised |-> FALSE, table |-> comparisons \cup {[kwargs EXCEPT !.id = id]}]

\* _store_comparison_result: comparison_data and the call
\* self.comparison_repo.create(comparison_data, org_id)
StoreComparisonResult(result, org_id, id) ==
    LET comparison_data ==
            [id |-> 0, org_id |-> org_id, document_a_id |-> result.document_a_id,
             document_b_id |-> result.document_b_id,
             comparison_result |-> result.computed_from]
    IN  RepositoryCreate(<<comparison_data, org_id>>, [id |-> 0], id)

UnorderedPair(a, b) == {a, b}

InitCompare ==
    /\ CmpIdle
    /\ AnalysisIdle
    /\ RiskIdle
    /\ RagIdle
    /\ MmrIdle /\ RateIdle /\ IngestIdle /\ TenantIdle /\ FnIdle

\* POST /compare up to the lookup of compare_documents: equal ids are
\* refused; a stored comparison of the pair is parsed and returned
StartCompare(r) ==
    /\ cmp[r].pc = "idle"
    /\ \E a \in CmpIds, b \in CmpIds :
          LET existing == GetByDocuments(a, b, OrgId)
              request == [pc |-> "done", a |-> a, b |-> b, http |-> 200,
                          after_store |-> UnorderedPair(a, b) \in cmpStored,
                          from_store |-> FALSE, recomputed |-> FALSE,
                          result |-> ComputeComparison(a, b)]
          IN  cmp' = [cmp EXCEPT ![r] =
                  IF a = b THEN [request EXCEPT !.http = 400]
                  ELSE IF existing.raised THEN [request EXCEPT !.http = 500]
                  ELSE IF existing.found
                  THEN [request EXCEPT !.from_store = TRUE,
                            !.result = ParseStoredComparison(CHOOSE row \in existing.rows : TRUE)]
                  ELSE [request EXCEPT !.pc = "computing"]]
    /\ UNCHANGED <<comparisons, cmpStored, analysisVars, riskVars, ragVars, extVars>>

\* compare_documents from get_with_chunks to the ComparisonResult
CompareContent(r) ==
    /\ cmp[r].pc = "computing"
    /\ cmp' = [cmp EXCEPT ![r] =
          IF {cmp[r].a, cmp[r].b} \subseteq CmpDocs
          THEN [cmp[r] EXCEPT !.pc = "storing", !.recomputed = TRUE,
                    !.result = ComputeComparison(cmp[r].a, cmp[r].b)]
          ELSE [cmp[r] EXCEPT !.pc = "done", !.http = 500]]
    /\ UNCHANGED <<comparisons, cmpStored, analysisVars, riskVars, ragVars, extVars>>

\* compare_documents at _store_comparison_result, and the answer of the route
StoreComparison(r) ==
    /\ cmp[r].pc = "storing"
    /\ LET stored == StoreComparisonResult(cmp[r].result, OrgId, r)
       IN  /\ comparisons' = stored.table
           /\ cmp' = [cmp EXCEPT ![r] =
                 [cmp[r] EXCEPT !.pc = "done", !.http = IF stored.raised THEN 500 ELSE 200]]
    /\ cmpStored' = cmpStored \cup {UnorderedPair(cmp[r].a, cmp[r].b)}
    /\ UNCHANGED <<analysisVars, riskVars, ragVars, extVars>>

NextCompare == \E r \in 1..MaxRequests : StartCompare(r) \/ CompareContent(r) \/ StoreComparison(r)

SpecCompare == InitCompare /\ [][NextCompare]_vars

C8_ExactlyOneRecordPerPair ==
    \A r \in 1..MaxRequests :
        (cmp[r].pc = "done" /\ cmp[r].recomputed) =>
            LET lookup == GetByDocuments(cmp[r].a, cmp[r].b, OrgId)
            IN  /\ Cardinality(lookup.rows) <= 1
                /\ lookup.found

(***************************************************************************)
(* Semantic search and MMR reranking (services/rag.py,                      *)
(* repositories/document_chunk.py)                                          *)
(*                                                                          *)
(* An embedding is a unit vector of the plane, given by its angle in        *)
(* degrees; similarities are cosines in thousandths.                        *)
(***************************************************************************)
MaxLimit == 2

\* 1000 * cos(d degrees) for d = 0..180, at index d + 1
CosThousandths ==
    <<
       1000, 1000, 999, 999, 998, 996, 995, 993, 990, 988, 985, 982,
       978, 974, 970, 966, 961, 956, 951, 946, 940, 934, 927, 921,
       914, 906, 899, 891, 883, 875, 866, 857, 848, 839, 829, 819,
       809, 799, 788, 777, 766, 755, 743, 731, 719, 707, 695, 682,
       669, 656, 643, 629, 616, 602, 588, 574, 559, 545, 530, 515,
       500, 485, 469, 454, 438, 423, 407, 391, 375, 358, 342, 326,
       309, 292, 276, 259, 242, 225, 208, 191, 174, 156, 139, 122,
       105, 87, 70, 52, 35, 17, 0, -17, -35, -52, -70, -87,
       -105, -122, -139, -156, -174, -191, -208, -225, -242, -259, -276, -292,
       -309, -326, -342, -358, -375, -391, -407, -423, -438, -454, -469, -485,
       -500, -515, -530, -545, -559, -574, -588, -602, -616, -629, -643, -656,
       -669, -682, -695, -707, -719, -731, -743, -755, -766, -777, -788, -799,
       -809, -819, -829, -839, -848, -857, -866, -875, -883, -891, -899, -906,
       -914, -921, -927, -934, -940, -946, -951, -956, -961, -966, -970, -974,
       -978, -982, -985, -988, -990, -993, -995, -996, -998, -999, -999, -1000,
       -1000
    >>

Abs(x) == IF x < 0 THEN -x ELSE x

\* cosine_similarity of two embeddings
CosineSimilarity(a, b) == CosThousandths[Abs(a - b) + 1]

\* the embedding of the query
query_embedding == 0

\* the embeddings of the chunks a tenant may have stored
ChunkAngles == {-44, -38, -5, 10, 35, 40, 60}

\* similarity_threshold = 0.7
similarity_threshold == 700

\* lambda_param = 0.7, in tenths
lambda_param == 7

\* 1 - (embedding <=> :query_embedding)
Similarity(chunk) == CosineSimilarity(chunk, query_embedding)

\* ORDER BY similarity DESC
RECURSIVE OrderBySimilarityDesc(_)
OrderBySimilarityDesc(chunks) ==
    IF chunks = {} THEN <<>>
    ELSE LET best == CHOOSE c \in chunks : \A d \in chunks : Similarity(c) >= Similarity(d)
         IN  <<best>> \o OrderBySimilarityDesc(chunks \ {best})

\* DocumentChunkRepository.similarity_search: the chunks above the threshold,
\* most similar first, at most limit of them
SimilaritySearch(store, limit, threshold) ==
    LET rows == OrderBySimilarityDesc({c \in store : Similarity(c) > threshold})
    IN  SubSeq(rows, 1, Min(limit, Len(rows)))

MaxSimilarity_IgnoreSelected(chunk_results, idx, selected_indices) == 0

\* max similarity of candidate idx to the already selected candidates
MaxSimilarity(chunk_results, idx, selected_indices) ==
    IF selected_indices = <<>> THEN 0
    ELSE LET sims == {CosineSimilarity(chunk_results[idx], chunk_results[selected_indices[k]]) :
                         k \in DOMAIN selected_indices}
         IN  CHOOSE m \in sims : \A x \in sims : m >= x

MmrScore_RelevanceOnly(chunk_results, idx, selected_indices) ==
    lambda_param * CosineSimilarity(query_embedding, chunk_results[idx])

\* mmr_score = lambda_param * relevance - (1 - lambda_param) * max_similarity,
\* times 10000
MmrScore(chunk_results, idx, selected_indices) ==
    lambda_param * CosineSimilarity(query_embedding, chunk_results[idx])
        - (10 - lambda_param) * MaxSimilarity(chunk_results, idx, selected_indices)

\* max(mmr_scores, key=...): the first index of remaining_indices with the
\* highest score
BestIndex(chunk_results, remaining_indices, selected_indices) ==
    LET score(k) == MmrScore(chunk_results, remaining_indices[k], selected_indices)
        first == CHOOSE k \in DOMAIN remaining_indices :
                    /\ \A j \in DOMAIN remaining_indices : score(k) >= score(j)
                    /\ \A j \in 1..(k - 1) : score(j) < score(k)
    IN  remaining_indices[first]

RemoveIndex_Keep(remaining_indices, idx) == remaining_indices

\* remaining_indices.remove(idx)
RemoveIndex(remaining_indices, idx) == SelectSeq(remaining_indices, LAMBDA i : i # idx)

\* a search request: the stored chunks of the tenant and the limit asked for
InitMmr ==
    /\ mmr \in [pc : {"search"}, store : SUBSET ChunkAngles, limit : 1..MaxLimit,
                 chunk_results : {<<>>}, selected_indices : {<<>>}, remaining_indices : {<<>>},
                 picks : {<<>>}, reranked : {<<>>}]
    /\ AnalysisIdle /\ RiskIdle /\ RagIdle /\ CmpIdle
    /\ RateIdle /\ IngestIdle /\ TenantIdle /\ FnIdle

\* SemanticSearchService.search up to the loop of _apply_mmr_reranking:
\* similarity_search with limit * 2, the early returns, the first selection
SearchCandidates ==
    /\ mmr.pc = "search"
    /\ LET chunk_results == SimilaritySearch(mmr.store, mmr.limit * 2, similarity_threshold)
           n == Len(chunk_results)
       IN  mmr' = IF n <= mmr.limit
                  THEN [mmr EXCEPT !.pc = "done", !.chunk_results = chunk_results,
                                   !.reranked = chunk_results]
                  ELSE [mmr EXCEPT !.pc = "loop", !.chunk_results = chunk_results,
                                   !.selected_indices = <<1>>,
                                   !.remaining_indices = RemoveIndex([i \in 1..n |-> i], 1)]
    /\ UNCHANGED <<coreVars, rate, ingest, tenant, fn>>

\* one iteration of the while loop of _apply_mmr_reranking
MmrSelectNext ==
    /\ mmr.pc = "loop"
    /\ Len(mmr.selected_indices) < mmr.limit
    /\ mmr.remaining_indices # <<>>
    /\ LET best_idx == BestIndex(mmr.chunk_results, mmr.remaining_indices, mmr.selected_indices)
       IN  mmr' = [mmr EXCEPT
                     !.selected_indices = Append(mmr.selected_indices, best_idx),
                     !.remaining_indices = RemoveIndex(mmr.remaining_indices, best_idx),
                     !.picks = Append(mmr.picks,
                                  [idx |-> best_idx, remaining |-> mmr.remaining_indices,
                                   selected |-> mmr.selected_indices])]
    /\ UNCHANGED <<coreVars, rate, ingest, tenant, fn>>

\* the loop of _apply_mmr_reranking ends and the reranked list is returned
MmrReturn ==
    /\ mmr.pc = "loop"
    /\ ~(Len(mmr.selected_indices) < mmr.limit /\ mmr.remaining_indices # <<>>)
    /\ mmr' = [mmr EXCEPT !.pc = "done",
                  !.reranked = [k \in DOMAIN mmr.selected_indices |->
                                  mmr.chunk_results[mmr.selected_indices[k]]]]
    /\ UNCHANGED <<coreVars, rate, ingest, tenant, fn>>

NextMmr == SearchCandidates \/ MmrSelectNext \/ MmrReturn

SpecMmr == InitMmr /\ [][NextMmr]_vars /\ WF_vars(NextMmr)

\* two chunks are near-duplicates: cosine similarity above 0.95
NearDuplicate(a, b) == CosineSimilarity(a, b) > 950

\* reranking ran on candidates made of at least two near-duplicates of each
\* other and one chunk x that is a near-duplicate of none of them
DuplicatesAndDistinct(x) ==
    LET candidates == Range(mmr.chunk_results)
        duplicates == candidates \ {x}
    IN  /\ mmr.pc = "done"
        /\ Len(mmr.chunk_results) > mmr.limit
        /\ x \in candidates
        /\ Cardinality(duplicates) >= 2
        /\ \A a \in duplicates, b \in duplicates : NearDuplicate(a, b)
        /\ \A d \in duplicates : ~NearDuplicate(x, d)

\* x is selected before a second chunk other than x is
SelectedBeforeSecondDuplicate(x) ==
    \A k \in DOMAIN mmr.reranked :
        Cardinality({j \in 1..k : mmr.reranked[j] # x}) >= 2 => \E j \in 1..k : mmr.reranked[j] = x

\* C11 as stated: for near-duplicate candidates and one distinct candidate,
\* all above the retrieval threshold, MMR with lambda = 0.7 selects the
\* distinct chunk before a second near-duplicate, whatever the relevances and
\* the similarity of the distinct chunk to the selected ones.
C11_DistinctBeforeSecondDuplicate ==
    \A x \in ChunkAngles : DuplicatesAndDistinct(x) => SelectedBeforeSecondDuplicate(x)

\* C11 amended: the distinct chunk is selected before a second near-duplicate
\* when its similarity to each of the near-duplicates is at most 0.25.
C11_FarChunkBeforeSecondDuplicate ==
    \A x \in ChunkAngles :
        (/\ DuplicatesAndDistinct(x)
         /\ \A d \in Range(mmr.chunk_results) \ {x} : CosineSimilarity(x, d) <= 250)
            => SelectedBeforeSecondDuplicate(x)

\* the near-duplicates at 35 and 40 degrees and the chunk at -44 degrees,
\* which is less relevant than both and is selected second
C11_Witness ==
    /\ DuplicatesAndDistinct(-44)
    /\ mmr.chunk_results = <<35, 40, -44>>
    /\ mmr.limit = 2
    /\ mmr.reranked = <<35, -44>>

C17_GreedyMmrSelection ==
    LET c == mmr.chunk_results
        maxsim(i, selected) ==
            CHOOSE m \in {CosineSimilarity(c[i], c[selected[k]]) : k \in DOMAIN selected} :
                \A k \in DOMAIN selected : m >= CosineSimilarity(c[i], c[selected[k]])
        score(i, selected) == 7 * CosineSimilarity(c[i], 0) - 3 * maxsim(i, selected)
    IN  /\ mmr.selected_indices # <<>> =>
               \A i \in DOMAIN c :
                   CosineSimilarity(c[mmr.selected_indices[1]], 0) >= CosineSimilarity(c[i], 0)
        /\ \A p \in DOMAIN mmr.picks :
               LET pick == mmr.picks[p]
               IN  /\ pick.idx \in Range(pick.remaining)
                   /\ pick.idx \notin Range(pick.selected)
                   /\ \A j \in Range(pick.remaining) :
                          score(pick.idx, pick.selected) >= score(j, pick.selected)

\* a selection that passes over the most relevant remaining candidate
C17_Witness ==
    /\ mmr.picks # <<>>
    /\ mmr.picks[1].idx # Head(mmr.picks[1].remaining)
    /\ Similarity(mmr.chunk_results[mmr.picks[1].idx])
          < Similarity(mmr.chunk_results[Head(mmr.picks[1].remaining)])

\* ---------------------------------------------------------------------------
\* Sliding-window rate limiting: CacheService.check_rate_limit (services/cache.py)
\* and RateLimiter.is_allowed (core/rate_limiting.py).  Both keep, per key and
\* action, a Redis sorted set whose members are the request timestamps written
\* as strings and whose scores are the same timestamps.
\* ---------------------------------------------------------------------------
MaxTime == 3
MaxCalls == 4
MaxRateLimit == 2
MaxWindow == 2

RateImpls == {"check_rate_limit", "is_allowed"}

\* ZREMRANGEBYSCORE key 0 max: scores up to and including max are removed
ZRemRangeByScore(zset, max) == {m \in zset : m > max}

\* ZADD key {str(t): t}: the member is the timestamp, so adding a timestamp
\* that is already a member leaves the set as it is
ZAdd(zset, t) == zset \cup {t}

\* the pipeline of both implementations: cleanup, count, add, (expire)
RatePipeline(zset, now, window) ==
    LET cleaned == ZRemRangeByScore(zset, now - window)
    IN  [count |-> Cardinality(cleaned), zset |-> ZAdd(cleaned, now)]

IsAllowed(current_count, limit) == current_count < limit

\* number of requests of the key that were granted in the window (t - window, t]
GrantsInWindow(granted, t, window) ==
    Cardinality({i \in DOMAIN granted : granted[i] > t - window /\ granted[i] <= t})

InitRate ==
    /\ rate \in [pc : {"run"}, impl : RateImpls, limit : 1..MaxRateLimit,
                 window : 1..MaxWindow, now : {0}, zset : {{}}, granted : {<<>>},
                 denied : {0}, zrem : {<<>>}]
    /\ AnalysisIdle /\ RiskIdle /\ RagIdle /\ CmpIdle
    /\ MmrIdle /\ IngestIdle /\ TenantIdle /\ FnIdle

\* the clock (datetime.utcnow() / int(time.time())) advances
RateTick ==
    /\ rate.pc = "run"
    /\ rate.now < MaxTime
    /\ rate' = [rate EXCEPT !.now = @ + 1]
    /\ UNCHANGED <<coreVars, mmr, ingest, tenant, fn>>

\* CacheService.check_rate_limit up to the result of the pipeline; a denied
\* request leaves its ZREM to be issued after the pipeline has returned
CheckRateLimit ==
    /\ rate.pc = "run"
    /\ rate.impl = "check_rate_limit"
    /\ Len(rate.granted) + rate.denied < MaxCalls
    /\ LET r == RatePipeline(rate.zset, rate.now, rate.window)
       IN  IF IsAllowed(r.count, rate.limit)
           THEN rate' = [rate EXCEPT !.zset = r.zset, !.granted = Append(@, rate.now)]
           ELSE rate' = [rate EXCEPT !.zset = r.zset, !.denied = @ + 1,
                                     !.zrem = Append(@, rate.now)]
    /\ UNCHANGED <<coreVars, mmr, ingest, tenant, fn>>

\* the ZREM of a denied request's member (cache.py, "Remove the request we just added")
CheckRateLimitZrem ==
    /\ rate.pc = "run"
    /\ rate.zrem # <<>>
    /\ rate' = [rate EXCEPT !.zset = @ \ {Head(rate.zrem)}, !.zrem = Tail(@)]
    /\ UNCHANGED <<coreVars, mmr, ingest, tenant, fn>>

\* RateLimiter.is_allowed: the same pipeline; a denied request stays in the set
RateLimiterIsAllowed ==
    /\ rate.pc = "run"
    /\ rate.impl = "is_allowed"
    /\ Len(rate.granted) + rate.denied < MaxCalls
    /\ LET r == RatePipeline(rate.zset, rate.now, rate.window)
       IN  IF IsAllowed(r.count, rate.limit)
           THEN rate' = [rate EXCEPT !.zset = r.zset, !.granted = Append(@, rate.now)]
           ELSE rate' = [rate EXCEPT !.zset = r.zset, !.denied = @ + 1]
    /\ UNCHANGED <<coreVars, mmr, ingest, tenant, fn>>

NextRate == RateTick \/ CheckRateLimit \/ CheckRateLimitZrem \/ RateLimiterIsAllowed

SpecRate == InitRate /\ [][NextRate]_vars

\* C12: while Redis is reachable, the number of requests of one key and action
\* that are granted within any sliding window never exceeds the limit, requests
\* made at the same timestamp included.
C12_GrantsWithinWindowAtMostLimit ==
    rate.pc = "run" =>
        \A t \in 0..MaxTime : GrantsInWindow(rate.granted, t, rate.window) <= rate.limit

\* ---------------------------------------------------------------------------
\* Document ingestion: the ingest_document route (routers/ingestion.py) and
\* DocumentProcessingService.process_document (services/document_processor.py)
\* with EmbeddingService.process_document (services/embedding.py), for one
\* document whose text splits into n chunks.
\* ---------------------------------------------------------------------------
MaxIngests == 3
MaxIngestClients == 2

EmbeddingOutcomes == {"ok", "error", "missing"}

\* TextChunkingService.chunk_text: chunk_no = i for i, doc in enumerate(split_docs)
ChunkNumbers(n) == 0..(n - 1)

\* generate_embeddings: the provider's call for a chunk (its batch) raising makes
\* the whole call raise; a Bedrock response without 'embedding' yields []
GenerateEmbeddings(n, out) ==
    IF \E k \in ChunkNumbers(n) : out[k] = "error"
    THEN [raised |-> TRUE, embeddings |-> <<>>]
    ELSE [raised |-> FALSE,
          embeddings |-> [i \in 1..n |-> IF out[i - 1] = "ok" THEN "vector" ELSE "empty"]]

\* the unique index ux_document_chunks_doc_chunk on (document_id, chunk_no)
UniqueIndexViolated_Absent(stored, chunk_nos) == FALSE

UniqueIndexViolated(stored, chunk_nos) ==
    \E c \in stored : c.chunk_no \in chunk_nos

\* the column embedding vector(1536) takes no vector without dimensions
VectorRejected(embeddings) == \E i \in DOMAIN embeddings : embeddings[i] = "empty"

NoRun == [ran |-> FALSE, failed |-> {}, result |-> "none"]

\* process_document for a document of n chunks: the status and the rows that
\* are committed when it returns
ProcessDocumentRun(st, extracted_empty, out, clauses_raise) ==
    LET n == st.n
        failed == {k \in ChunkNumbers(n) : out[k] = "error"}
        emb == GenerateEmbeddings(n, out)
        rows == {[id |-> st.nextId + k, chunk_no |-> k, embedding |-> emb.embeddings[k + 1]] :
                     k \in ChunkNumbers(n)}
        ran(result, f) == [ran |-> TRUE, failed |-> f, result |-> result]
    IN  IF extracted_empty
        THEN [st EXCEPT !.status = "failed", !.last = ran("no_text", {})]
        ELSE IF emb.raised
        THEN [st EXCEPT !.status = "failed", !.last = ran("embedding_error", failed)]
        ELSE IF UniqueIndexViolated(st.chunks, ChunkNumbers(n)) \/ VectorRejected(emb.embeddings)
        THEN \* flush raises, the session needs a rollback, the handler's update raises too
             [st EXCEPT !.status = "processing", !.last = ran("flush_error", {})]
        ELSE IF clauses_raise
        THEN \* the handler's commit also commits the flushed chunks
             [st EXCEPT !.status = "failed", !.chunks = @ \cup rows, !.nextId = @ + n,
                        !.last = ran("clause_error", {})]
        ELSE [st EXCEPT !.status = "completed", !.chunks = @ \cup rows, !.nextId = @ + n,
                        !.last = ran("completed", {})]

NoIngestRequest == [pc |-> "idle", before |-> "none", http |-> 0, after |-> "none"]

InitIngest ==
    /\ ingest \in [pc : {"run"}, n : 1..MaxChunks, status : {"uploaded"}, jobs : {0},
                   submitted : {0}, chunks : {{}}, nextId : {1}, last : {NoRun},
                   reqs : {[r \in 1..MaxIngestClients |-> NoIngestRequest]}]
    /\ AnalysisIdle /\ RiskIdle /\ RagIdle /\ CmpIdle
    /\ MmrIdle /\ RateIdle /\ TenantIdle /\ FnIdle

\* POST /ingest/{document_id}, up to the status check: the request reads the
\* document on its own session and is refused with 409 while it is PROCESSING
IngestCheckStatus(r) ==
    /\ ingest.pc = "run"
    /\ ingest.reqs[r].pc = "idle"
    /\ ingest.submitted < MaxIngests
    /\ ingest' = [ingest EXCEPT
           !.submitted = @ + 1,
           !.reqs[r] = IF ingest.status = "processing"
                       THEN [pc |-> "idle", before |-> ingest.status, http |-> 409,
                             after |-> ingest.status]
                       ELSE [pc |-> "checked", before |-> ingest.status, http |-> 0,
                             after |-> "none"]]
    /\ UNCHANGED <<coreVars, mmr, rate, tenant, fn>>

\* doc_repo.update(status=PROCESSING) and session.commit()
IngestSetProcessing(r) ==
    /\ ingest.pc = "run"
    /\ ingest.reqs[r].pc = "checked"
    /\ ingest' = [ingest EXCEPT !.status = "processing", !.reqs[r].pc = "committed"]
    /\ UNCHANGED <<coreVars, mmr, rate, tenant, fn>>

\* job_queue.submit_document_processing: the task is queued, or apply_async
\* raises and the route answers 500
IngestSubmit(r) ==
    /\ ingest.pc = "run"
    /\ ingest.reqs[r].pc = "committed"
    /\ \E queued \in BOOLEAN :
          ingest' = [ingest EXCEPT
              !.jobs = IF queued THEN @ + 1 ELSE @,
              !.reqs[r] = [pc |-> "idle", before |-> ingest.reqs[r].before,
                           http |-> IF queued THEN 200 ELSE 500, after |-> ingest.status]]
    /\ UNCHANGED <<coreVars, mmr, rate, tenant, fn>>

\* the worker runs process_document for a queued job
ProcessDocumentJob ==
    /\ ingest.pc = "run"
    /\ ingest.jobs > 0
    /\ \E extracted_empty \in BOOLEAN, clauses_raise \in BOOLEAN,
          out \in [ChunkNumbers(ingest.n) -> EmbeddingOutcomes] :
          ingest' = [ProcessDocumentRun(ingest, extracted_empty, out, clauses_raise)
                         EXCEPT !.jobs = @ - 1]
    /\ UNCHANGED <<coreVars, mmr, rate, tenant, fn>>

NextIngest ==
    \/ \E r \in 1..MaxIngestClients : IngestCheckStatus(r)
    \/ \E r \in 1..MaxIngestClients : IngestSetProcessing(r)
    \/ \E r \in 1..MaxIngestClients : IngestSubmit(r)
    \/ ProcessDocumentJob

SpecIngest == InitIngest /\ [][NextIngest]_vars

StoredChunkNumbers == {c.chunk_no : c \in ingest.chunks}

\* C13: when the embedding call fails for some chunks of a document, the chunks
\* whose embeddings succeeded are indexed, and no chunk is stored with an empty
\* or zero vector.
C13_PartialEmbeddingFailureKeepsSucceeded ==
    (ingest.pc = "run" /\ ingest.last.ran /\ ingest.last.failed # {}) =>
        /\ \A k \in ChunkNumbers(ingest.n) \ ingest.last.failed : k \in StoredChunkNumbers
        /\ \A c \in ingest.chunks : c.embedding = "vector"

\* C14: after any sequence of ingestion and processing operations on a
\* document, re-ingestion of a COMPLETED document and a run after a FAILED run
\* included, no two stored chunks of the document have the same chunk_no.
C14_ChunkNoUniquePerDocument ==
    ingest.pc = "run" =>
        \A c1 \in ingest.chunks, c2 \in ingest.chunks :
            c1.chunk_no = c2.chunk_no => c1 = c2

\* a second processing run of a document that already has its chunks stored
C14_Witness ==
    /\ ingest.pc = "run"
    /\ ingest.submitted >= 2
    /\ ingest.chunks # {}
    /\ ingest.last.result = "flush_error"

\* C19: for every non-empty list of rule results the overall_risk_score is the
\* sum of the per-rule risk scores divided by the number of rules, rounded to
\* the nearest integer (either neighbour on a tie) and clamped to 0..100.
C19_OverallRiskIsRoundedMean ==
    (riskOut.done /\ riskIn # <<>>) =>
        LET n == Len(riskIn)
            total == SumSeq([i \in 1..n |-> riskIn[i].risk_score])
        IN  /\ riskOut.overall_risk_score \in 0..100
            /\ 2 * Abs(riskOut.overall_risk_score * n - total) <= n

\* ---------------------------------------------------------------------------
\* RiskAssessmentService.calculate_risk_trend (services/risk_assessment.py)
\* over the analyses of one document, at most one analysis per day; days are
\* numbered 1..MaxDays and the call is made on day MaxDays.
\* ---------------------------------------------------------------------------
MaxDays == 4

TrendScores == {0, 10, 21, 40}

\* codes of a day without analysis and of an analysis whose risk_score is NULL
NoAnalysis == -2
NullScore == -1

\* AnalysisRepository.get_by_document: the rows ordered by created_at descending
RECURSIVE GetByDocument(_, _)
GetByDocument(history, day) ==
    IF day = 0 THEN <<>>
    ELSE IF history[day] = NoAnalysis THEN GetByDocument(history, day - 1)
    ELSE <<[created_at |-> day, risk_score |-> history[day]]>> \o GetByDocument(history, day - 1)

\* [a for a in analyses if a.created_at >= cutoff_date and a.risk_score is not None]
RECURSIVE RecentAnalyses(_, _)
RecentAnalyses(analyses, cutoff_date) ==
    IF analyses = <<>> THEN <<>>
    ELSE LET a == Head(analyses)
             rest == RecentAnalyses(Tail(analyses), cutoff_date)
         IN  IF a.created_at >= cutoff_date /\ a.risk_score # NullScore
             THEN <<a>> \o rest ELSE rest

\* recent_analyses.sort(key=lambda a: a.created_at): insertion into ascending order
RECURSIVE SortByCreatedAt(_)
SortByCreatedAt(analyses) ==
    IF analyses = <<>> THEN <<>>
    ELSE LET a == Head(analyses)
             sorted == SortByCreatedAt(Tail(analyses))
             before == SelectSeq(sorted, LAMBDA b : b.created_at < a.created_at)
             after == SelectSeq(sorted, LAMBDA b : b.created_at >= a.created_at)
         IN  before \o <<a>> \o after

\* calculate_risk_trend called on day now with days_back
RiskTrend(history, now, days_back) ==
    CalculateRiskTrend(SortByCreatedAt(RecentAnalyses(GetByDocument(history, MaxDays),
                                                      now - days_back)))

InitTrend ==
    /\ fn \in [op : {"calculate_risk_trend"},
               history : [1..MaxDays -> TrendScores \cup {NoAnalysis, NullScore}],
               days_back : 1..(MaxDays - 1), returned : {FALSE}, trend : {None}]
    /\ AnalysisIdle /\ RiskIdle /\ RagIdle /\ CmpIdle
    /\ MmrIdle /\ RateIdle /\ IngestIdle /\ TenantIdle

CalculateRiskTrendCall ==
    /\ fn.op = "calculate_risk_trend"
    /\ ~fn.returned
    /\ fn' = [fn EXCEPT !.returned = TRUE, !.trend = RiskTrend(fn.history, MaxDays, fn.days_back)]
    /\ UNCHANGED <<coreVars, mmr, rate, ingest, tenant>>

NextTrend == CalculateRiskTrendCall

SpecTrend == InitTrend /\ [][NextTrend]_vars

\* C20: calculate_risk_trend compares the two most recent analyses inside the
\* lookback window: deteriorating when the newer score exceeds the previous one
\* by more than 10, improving when it is lower by more than 10, stable
\* otherwise, and null when fewer than two analyses lie in the window.
C20_TrendOfTwoMostRecent ==
    (fn.op = "calculate_risk_trend" /\ fn.returned) =>
        LET inWindow == {d \in 1..MaxDays : /\ d >= MaxDays - fn.days_back
                                             /\ fn.history[d] \in TrendScores}
            newest == CHOOSE d \in inWindow : \A e \in inWindow : e <= d
            previous == CHOOSE d \in inWindow \ {newest} : \A e \in inWindow \ {newest} : e <= d
            delta == fn.history[newest] - fn.history[previous]
        IN  IF Cardinality(inWindow) < 2 THEN fn.trend = None
            ELSE fn.trend = (IF delta > 10 THEN "deteriorating"
                             ELSE IF delta < -10 THEN "improving" ELSE "stable")

\* ---------------------------------------------------------------------------
\* The verdict of ComplianceEngine._evaluate_rule as a function of the rule's
\* required flag, its risk_weight and the confidences of its matches.
\* ---------------------------------------------------------------------------
MaxMatches == 2

VerdictWeights == {0, 10, 60, 90, 100}

VerdictConfidences == {30, 49, 50, 79, 80, 100}

InitVerdict ==
    /\ fn \in [op : {"evaluate_rule"}, required : BOOLEAN, risk_weight : VerdictWeights,
               confidences : SeqsUpTo(VerdictConfidences, MaxMatches),
               returned : {FALSE},
               verdict : {[status |-> None, missing_clause |-> FALSE, risk_score |-> 0]}]
    /\ AnalysisIdle /\ RiskIdle /\ RagIdle /\ CmpIdle
    /\ MmrIdle /\ RateIdle /\ IngestIdle /\ TenantIdle

EvaluateRuleCall ==
    /\ fn.op = "evaluate_rule"
    /\ ~fn.returned
    /\ fn' = [fn EXCEPT !.returned = TRUE,
                        !.verdict = RuleVerdict(fn.required, fn.risk_weight, fn.confidences)]
    /\ UNCHANGED <<coreVars, mmr, rate, ingest, tenant>>

NextVerdict == EvaluateRuleCall

SpecVerdict == InitVerdict /\ [][NextVerdict]_vars

\* C18: for a rule with at least one match the status follows the average
\* match confidence: at least 0.8 gives COMPLIANT with risk 0, at least 0.5 and
\* below 0.8 gives REVIEW_REQUIRED with risk = risk_weight * 30, below 0.5 gives
\* NON_COMPLIANT with risk = risk_weight * 70, always with missing_clause
\* false; an optional rule without a match is COMPLIANT with risk 0 and
\* missing_clause false.
C18_VerdictByAverageConfidence ==
    (fn.op = "evaluate_rule" /\ fn.returned) =>
        LET n == Len(fn.confidences)
            sum == SumSeq(fn.confidences)
            v == fn.verdict
            \* the average, in hundredths, is at least c
            AverageAtLeast(c) == sum >= c * n
        IN  /\ (n >= 1 /\ AverageAtLeast(80)) =>
                   v = [status |-> COMPLIANT, missing_clause |-> FALSE, risk_score |-> 0]
            /\ (n >= 1 /\ AverageAtLeast(50) /\ ~AverageAtLeast(80)) =>
                   /\ v.status = REVIEW_REQUIRED /\ ~v.missing_clause
                   /\ 100 * v.risk_score = fn.risk_weight * 30
            /\ (n >= 1 /\ ~AverageAtLeast(50)) =>
                   /\ v.status = NON_COMPLIANT /\ ~v.missing_clause
                   /\ 100 * v.risk_score = fn.risk_weight * 70
            /\ (n = 0 /\ ~fn.required) =>
                   v = [status |-> COMPLIANT, missing_clause |-> FALSE, risk_score |-> 0]

\* a rule of weight 0.9 matched twice with an average confidence of 0.645
C18_Witness ==
    /\ fn.op = "evaluate_rule" /\ fn.returned
    /\ fn.risk_weight = 90
    /\ fn.confidences = <<50, 79>>
    /\ fn.verdict = [status |-> REVIEW_REQUIRED, missing_clause |-> FALSE, risk_score |-> 27]

\* ---------------------------------------------------------------------------
\* Multi-tenant reads through BaseRepository (repositories/base.py) on one
\* database session.  The documents table has row level security with the
\* policy documents_org_rls: org_id::text = current_setting('app.current_org', true).
\* ---------------------------------------------------------------------------
MaxTenantDocs == 2

Orgs == {"org1", "org2"}

\* the value of app.current_org when it is not set, and of an org_id not given
NoOrg == ""

\* the rows of documents the policy lets the session see
RlsVisible(docs, current_org) == {d \in docs : d.org_id = current_org}

\* a repository that does not set the context of the call
OrgContextFor_Stale(current_org, org_id) == current_org

\* "if org_id: await self.set_org_context(org_id)": the setting the query runs under
OrgContextFor(current_org, org_id) == IF org_id # NoOrg THEN org_id ELSE current_org

NoRead == [op |-> "none", org_id |-> NoOrg, id |-> 0, before |-> NoOrg, result |-> {}]

InitTenant ==
    /\ tenant = [pc |-> "run", docs |-> {}, current_org |-> NoOrg, last |-> NoRead]
    /\ AnalysisIdle /\ RiskIdle /\ RagIdle /\ CmpIdle
    /\ MmrIdle /\ RateIdle /\ IngestIdle /\ FnIdle

\* core.database.set_org_context / clear_org_context called on the session
SetOrgContext ==
    /\ tenant.pc = "run"
    /\ \E org \in Orgs \cup {NoOrg} : tenant' = [tenant EXCEPT !.current_org = org]
    /\ UNCHANGED <<coreVars, mmr, rate, ingest, fn>>

\* session.commit(): set_config(..., true) lasts until the end of the transaction
Commit ==
    /\ tenant.pc = "run"
    /\ tenant.current_org # NoOrg
    /\ tenant' = [tenant EXCEPT !.current_org = NoOrg]
    /\ UNCHANGED <<coreVars, mmr, rate, ingest, fn>>

\* BaseRepository.create(org_id=...): the policy also checks the inserted row
CreateDocument ==
    /\ tenant.pc = "run"
    /\ Cardinality(tenant.docs) < MaxTenantDocs
    /\ \E org \in Orgs :
          /\ org = tenant.current_org
          /\ tenant' = [tenant EXCEPT
                 !.docs = @ \cup {[id |-> Cardinality(tenant.docs) + 1, org_id |-> org]}]
    /\ UNCHANGED <<coreVars, mmr, rate, ingest, fn>>

\* BaseRepository.get_by_id(id, org_id)
GetById ==
    /\ tenant.pc = "run"
    /\ \E id \in 1..MaxTenantDocs, org_id \in Orgs \cup {NoOrg} :
          LET ctx == OrgContextFor(tenant.current_org, org_id)
          IN  tenant' = [tenant EXCEPT
                  !.current_org = ctx,
                  !.last = [op |-> "get_by_id", org_id |-> org_id, id |-> id,
                            before |-> tenant.current_org,
                            result |-> {d \in RlsVisible(tenant.docs, ctx) : d.id = id}]]
    /\ UNCHANGED <<coreVars, mmr, rate, ingest, fn>>

\* BaseRepository.get_all(org_id)
GetAll ==
    /\ tenant.pc = "run"
    /\ \E org_id \in Orgs \cup {NoOrg} :
          LET ctx == OrgContextFor(tenant.current_org, org_id)
          IN  tenant' = [tenant EXCEPT
                  !.current_org = ctx,
                  !.last = [op |-> "get_all", org_id |-> org_id, id |-> 0,
                            before |-> tenant.current_org,
                            result |-> RlsVisible(tenant.docs, ctx)]]
    /\ UNCHANGED <<coreVars, mmr, rate, ingest, fn>>

NextTenant == SetOrgContext \/ Commit \/ CreateDocument \/ GetById \/ GetAll

SpecTenant == InitTenant /\ [][NextTenant]_vars

MaxRecResults == 2
MaxRecTexts == 2

RecRuleIds == {"indemnity_clause", "termination_clause"}

\* a recommendation text that _get_rule_recommendations knows for the rule, and one it does not
RecTexts == {"catalog", "custom"}

\* _get_priority_weight, _get_impact_weight
PriorityWeight(priority) ==
    CASE priority = "urgent" -> 4 [] priority = "high" -> 3 [] priority = "medium" -> 2 [] OTHER -> 1

ImpactWeight(impact) ==
    CASE impact = "high" -> 3 [] impact = "medium" -> 2 [] OTHER -> 1

\* _determine_recommendation_priority
DetermineRecommendationPriority(rule_id, status, risk_category) ==
    IF rule_id \in {"indemnity_clause", "liability_cap", "data_security", "intellectual_property"}
       /\ status = NON_COMPLIANT
    THEN "urgent"
    ELSE IF risk_category = "critical" /\ status = NON_COMPLIANT THEN "urgent"
    ELSE IF risk_category = "critical" /\ status = REVIEW_REQUIRED THEN "high"
    ELSE IF status = NON_COMPLIANT THEN "high"
    ELSE IF status = REVIEW_REQUIRED THEN "medium"
    ELSE "low"

\* details.get("impact", "medium") over _get_rule_recommendations(rule_id)
RecommendationImpact(rule_id, rec_text) ==
    IF rec_text = "catalog" /\ rule_id \in {"indemnity_clause", "liability_cap"}
    THEN "high" ELSE "medium"

\* _create_recommendations_for_rule: one Recommendation per text of the result
CreateRecommendationsForRule(compliance_result, risk_category) ==
    [i \in 1..Len(compliance_result.recommendations) |->
        [id |-> <<compliance_result.rule_id, i - 1>>,
         description |-> compliance_result.recommendations[i],
         priority |-> DetermineRecommendationPriority(compliance_result.rule_id,
                                                      compliance_result.status, risk_category),
         impact |-> RecommendationImpact(compliance_result.rule_id,
                                         compliance_result.recommendations[i]),
         clause_types |-> <<compliance_result.rule_id>>]]

\* _generate_strategic_recommendations
GenerateStrategicRecommendations(risk_category, low_confidence) ==
    (IF risk_category = "critical"
     THEN <<[id |-> <<"strategic_legal_review", 0>>, description |-> "strategic",
             priority |-> "urgent", impact |-> "high", clause_types |-> <<>>]>>
     ELSE IF risk_category = "high"
     THEN <<[id |-> <<"strategic_risk_mitigation", 0>>, description |-> "strategic",
             priority |-> "high", impact |-> "medium", clause_types |-> <<>>]>>
     ELSE <<>>)
    \o (IF low_confidence
        THEN <<[id |-> <<"strategic_manual_review", 0>>, description |-> "strategic",
                priority |-> "high", impact |-> "medium", clause_types |-> <<>>]>>
        ELSE <<>>)

\* the key of the sort, as one number
RecommendationKey(r) == 10 * PriorityWeight(r.priority) + ImpactWeight(r.impact)

\* recommendations.sort(key=..., reverse=True): descending, equal keys keep their order
RECURSIVE SortRecommendations(_)
SortRecommendations(recs) ==
    IF recs = <<>> THEN <<>>
    ELSE LET r == Head(recs)
             sorted == SortRecommendations(Tail(recs))
             before == SelectSeq(sorted, LAMBDA x : RecommendationKey(x) > RecommendationKey(r))
             after == SelectSeq(sorted, LAMBDA x : RecommendationKey(x) <= RecommendationKey(r))
         IN  before \o <<r>> \o after

RECURSIVE RuleRecommendations(_, _)
RuleRecommendations(compliance_results, risk_category) ==
    IF compliance_results = <<>> THEN <<>>
    ELSE (IF Head(compliance_results).status # COMPLIANT
          THEN CreateRecommendationsForRule(Head(compliance_results), risk_category)
          ELSE <<>>)
         \o RuleRecommendations(Tail(compliance_results), risk_category)

GenerateRecommendations(compliance_results, risk_category, low_confidence) ==
    SortRecommendations(RuleRecommendations(compliance_results, risk_category)
                        \o GenerateStrategicRecommendations(risk_category, low_confidence))

\* the results _evaluate_rule can hand over: a COMPLIANT result carries no texts
RecResults ==
    {r \in [rule_id : RecRuleIds, status : {COMPLIANT, REVIEW_REQUIRED, NON_COMPLIANT},
            recommendations : SeqsUpTo(RecTexts, MaxRecTexts)] :
        r.status = COMPLIANT => r.recommendations = <<>>}

InitRecs ==
    /\ fn \in [op : {"generate_recommendations"},
               compliance_results : {s \in SeqsUpTo(RecResults, MaxRecResults) :
                                        \A i, j \in DOMAIN s : s[i].rule_id = s[j].rule_id => i = j},
               risk_category : {"critical", "high", "low"}, low_confidence : BOOLEAN,
               returned : {FALSE}, recommendations : {<<>>}]
    /\ AnalysisIdle /\ RiskIdle /\ RagIdle /\ CmpIdle
    /\ MmrIdle /\ RateIdle /\ IngestIdle /\ TenantIdle

GenerateRecommendationsCall ==
    /\ fn.op = "generate_recommendations"
    /\ ~fn.returned
    /\ fn' = [fn EXCEPT !.returned = TRUE,
                        !.recommendations = GenerateRecommendations(fn.compliance_results,
                                                fn.risk_category, fn.low_confidence)]
    /\ UNCHANGED <<coreVars, mmr, rate, ingest, tenant>>

NextRecs == GenerateRecommendationsCall

SpecRecs == InitRecs /\ [][NextRecs]_vars

\* C21: generate_recommendations emits exactly one rule-level recommendation
\* for each result that is NON_COMPLIANT or REVIEW_REQUIRED and none for a
\* COMPLIANT one, however many recommendation texts the rule carries.
C21_OneRecommendationPerFailedRule ==
    (fn.op = "generate_recommendations" /\ fn.returned) =>
        \A i \in DOMAIN fn.compliance_results :
            LET r == fn.compliance_results[i]
                forRule == {k \in DOMAIN fn.recommendations :
                               fn.recommendations[k].clause_types = <<r.rule_id>>}
            IN  Cardinality(forRule) = (IF r.status = COMPLIANT THEN 0 ELSE 1)

\* ---------------------------------------------------------------------------
\* SemanticSearchService.get_context_window (services/rag.py): the sections of
\* the context and their lengths in characters.
\* ---------------------------------------------------------------------------
MaxSections == 3

\* len("\n--- From: ") + len(" ---\n"), and len("\n[... truncated ...]")
SectionHeaderChars == 16
TruncationNoticeChars == 20
\* "remaining_space = max_context_length - 100"
TruncationReserve == 100

\* search results: title length, main chunk, context chunks (length after strip, page; page 0 = none)
ContextResults ==
    { [title_len |-> 4, chunk |-> [chunk_no |-> 0, len |-> 29, page |-> 0], context_chunks |-> <<>>],
      [title_len |-> 4, chunk |-> [chunk_no |-> 2, len |-> 70, page |-> 1], context_chunks |-> <<>>],
      [title_len |-> 4, chunk |-> [chunk_no |-> 1, len |-> 50, page |-> 0],
       context_chunks |-> <<[chunk_no |-> 1, len |-> 50, page |-> 0],
                            [chunk_no |-> 0, len |-> 50, page |-> 0]>>],
      [title_len |-> 4, chunk |-> [chunk_no |-> 5, len |-> 200, page |-> 0], context_chunks |-> <<>>] }

ContextLengths == {50, 99, 100, 150, 151, 201, 400}

\* f" (Page {chunk.page})" if chunk.page else "", for one-digit pages
PageInfoChars(chunk) == IF chunk.page # 0 THEN 9 ELSE 0

\* len(section_text): header, then text, page info and "\n" for each included chunk
\* (sorting the context chunks by chunk_no does not change the length)
SectionLength(result) ==
    LET chunks_to_include == IF result.context_chunks # <<>> THEN result.context_chunks
                             ELSE <<result.chunk>>
    IN  SectionHeaderChars + result.title_len
        + SumSeq([i \in DOMAIN chunks_to_include |->
                     chunks_to_include[i].len + PageInfoChars(chunks_to_include[i]) + 1])

\* len(s[:n]) for a string of length len: a negative n counts from the end
SliceLength(len, n) == IF n >= 0 THEN Min(len, n) ELSE Max(0, len + n)

\* the loop of get_context_window from result i on, with the parts so far
RECURSIVE ContextParts(_, _, _, _, _)
ContextParts(search_results, i, max_context_length, context_parts, current_length) ==
    IF i > Len(search_results) THEN context_parts
    ELSE LET section == SectionLength(search_results[i])
         IN  IF current_length + section > max_context_length
             THEN IF current_length = 0
                  THEN Append(context_parts,
                              [result |-> i, truncated |-> TRUE,
                               len |-> SliceLength(section, max_context_length - TruncationReserve)
                                       + TruncationNoticeChars])
                  ELSE context_parts
             ELSE ContextParts(search_results, i + 1, max_context_length,
                               Append(context_parts, [result |-> i, truncated |-> FALSE, len |-> section]),
                               current_length + section)

\* len("\n".join(context_parts))
JoinedLength(context_parts) ==
    IF context_parts = <<>> THEN 0
    ELSE SumSeq([i \in DOMAIN context_parts |-> context_parts[i].len]) + Len(context_parts) - 1

InitContext ==
    /\ fn \in [op : {"get_context_window"},
               search_results : SeqsUpTo(ContextResults, MaxSections),
               max_context_length : ContextLengths,
               returned : {FALSE}, context_parts : {<<>>}, context_len : {0}]
    /\ AnalysisIdle /\ RiskIdle /\ RagIdle /\ CmpIdle
    /\ MmrIdle /\ RateIdle /\ IngestIdle /\ TenantIdle

GetContextWindow ==
    /\ fn.op = "get_context_window"
    /\ ~fn.returned
    /\ LET parts == ContextParts(fn.search_results, 1, fn.max_context_length, <<>>, 0)
       IN  fn' = [fn EXCEPT !.returned = TRUE, !.context_parts = parts,
                            !.context_len = JoinedLength(parts)]
    /\ UNCHANGED <<coreVars, mmr, rate, ingest, tenant>>

NextContext == GetContextWindow

SpecContext == InitContext /\ [][NextContext]_vars

\* C22: for every list of search results and every max_context_length the
\* returned string is at most max_context_length characters long, separators
\* and truncation notice included.
C22_ContextWithinMaxLength ==
    (fn.op = "get_context_window" /\ fn.returned) => fn.context_len <= fn.max_context_length

\* C23: the sections follow the order of the search results; the first section
\* that would overflow max_length is included truncated with the marker,
\* whatever its position, and the sections after it are omitted.
C23_OverflowingSectionTruncated ==
    (fn.op = "get_context_window" /\ fn.returned) =>
        LET results == fn.search_results
            parts == fn.context_parts
            LengthBefore(i) == SumSeq([k \in 1..(i - 1) |-> SectionLength(results[k])])
            Overflows(i) == LengthBefore(i) + SectionLength(results[i]) > fn.max_context_length
            overflowing == {i \in DOMAIN results : Overflows(i)}
            first == CHOOSE i \in overflowing : \A j \in overflowing : i <= j
        IN  /\ \A k \in DOMAIN parts : parts[k].result = k
            /\ IF overflowing = {}
               THEN Len(parts) = Len(results) /\ \A k \in DOMAIN parts : ~parts[k].truncated
               ELSE /\ Len(parts) = first
                    /\ \A k \in DOMAIN parts : parts[k].truncated <=> k = first

\* ---------------------------------------------------------------------------
\* DocumentComparisonService._compare_clauses and _assess_clause_risk_impact
\* (services/document_comparison.py)
\* ---------------------------------------------------------------------------
MaxClausesPerType == 1

ClauseTypes == {"liability", "Payment", "warranty", "governing_law"}

\* clause_type.lower()
ClauseTypeLower(clause_type) == IF clause_type = "Payment" THEN "payment" ELSE clause_type

high_risk_types == {"liability", "indemnity", "termination", "payment"}
medium_risk_types == {"warranty", "confidentiality", "intellectual_property"}

\* _assess_clause_risk_impact
AssessClauseRiskImpact(clause_type, change_type) ==
    IF ClauseTypeLower(clause_type) \in high_risk_types
    THEN IF change_type = "removed" THEN "high" ELSE "medium"
    ELSE IF ClauseTypeLower(clause_type) \in medium_risk_types THEN "medium"
    ELSE "low"

\* the ClauseChanges of one clause type: a and b are the numbers of clauses of
\* the type in the two documents, modified says that the first clauses of the
\* two documents have a SequenceMatcher ratio below 0.8
ClauseChangesOfType(clause_type, a, b, modified) ==
    IF a = 0 /\ b > 0
    THEN {[change_type |-> "added", clause_type |-> clause_type, clause |-> k,
           risk_impact |-> AssessClauseRiskImpact(clause_type, "added")] : k \in 1..b}
    ELSE IF a > 0 /\ b = 0
    THEN {[change_type |-> "removed", clause_type |-> clause_type, clause |-> k,
           risk_impact |-> AssessClauseRiskImpact(clause_type, "removed")] : k \in 1..a}
    ELSE IF a > 0 /\ b > 0 /\ modified
    THEN {[change_type |-> "modified", clause_type |-> clause_type, clause |-> 1,
           risk_impact |-> AssessClauseRiskImpact(clause_type, "modified")]}
    ELSE {}

\* _compare_clauses over all clause types of the two documents
CompareClauses(clauses) ==
    UNION {ClauseChangesOfType(t, clauses[t].a, clauses[t].b, clauses[t].modified) : t \in ClauseTypes}

InitClauses ==
    /\ fn \in [op : {"compare_clauses"},
               clauses : [ClauseTypes -> [a : 0..MaxClausesPerType, b : 0..MaxClausesPerType,
                                          modified : BOOLEAN]],
               returned : {FALSE}, changes : {{}}]
    /\ AnalysisIdle /\ RiskIdle /\ RagIdle /\ CmpIdle
    /\ MmrIdle /\ RateIdle /\ IngestIdle /\ TenantIdle

CompareClausesCall ==
    /\ fn.op = "compare_clauses"
    /\ ~fn.returned
    /\ fn' = [fn EXCEPT !.returned = TRUE, !.changes = CompareClauses(fn.clauses)]
    /\ UNCHANGED <<coreVars, mmr, rate, ingest, tenant>>

NextClauses == CompareClausesCall

SpecClauses == InitClauses /\ [][NextClauses]_vars

\* the impact the stated rule gives a change
StatedRiskImpact(clause_type, change_type) ==
    IF ClauseTypeLower(clause_type) \in {"liability", "indemnity", "termination", "payment"}
       /\ change_type = "removed" THEN "high"
    ELSE IF ClauseTypeLower(clause_type) \in {"liability", "indemnity", "termination", "payment"}
            /\ change_type = "modified" THEN "medium"
    ELSE IF ClauseTypeLower(clause_type) \in {"warranty", "confidentiality", "intellectual_property"}
    THEN "medium"
    ELSE "low"

\* C24: the risk impact of a clause change is high for a removed clause of type
\* liability, indemnity, termination or payment, medium for a modified clause
\* of those types, and for every other change, an added clause of those types
\* included, medium if the type is warranty, confidentiality or
\* intellectual_property and low otherwise.
C24_RiskImpactOfClauseChange ==
    (fn.op = "compare_clauses" /\ fn.returned) =>
        \A c \in fn.changes : c.risk_impact = StatedRiskImpact(c.clause_type, c.change_type)

\* ---------------------------------------------------------------------------
\* The candidate retrieval of SemanticSearchService.search (services/rag.py):
\* similarity_search with limit * 2 and the caller's similarity_threshold.
\* ---------------------------------------------------------------------------
\* thresholds in thousandths; 719 = cos 44 and 788 = cos 38 are similarities of stored chunks
SearchThresholds == {500, 700, 719, 788}

InitSearch ==
    /\ fn \in [op : {"search"}, store : SUBSET ChunkAngles, limit : 1..MaxLimit,
               similarity_threshold : SearchThresholds,
               returned : {FALSE}, chunk_results : {<<>>}]
    /\ AnalysisIdle /\ RiskIdle /\ RagIdle /\ CmpIdle
    /\ MmrIdle /\ RateIdle /\ IngestIdle /\ TenantIdle

\* chunk_results = await self.chunk_repository.similarity_search(..., limit=limit * 2, ...)
SearchRetrieve ==
    /\ fn.op = "search"
    /\ ~fn.returned
    /\ fn' = [fn EXCEPT !.returned = TRUE,
                        !.chunk_results = SimilaritySearch(fn.store, fn.limit * 2,
                                                           fn.similarity_threshold)]
    /\ UNCHANGED <<coreVars, mmr, rate, ingest, tenant>>

NextSearch == SearchRetrieve

SpecSearch == InitSearch /\ [][NextSearch]_vars

\* C25: the search retrieves at most 2 * limit candidates, and a chunk is
\* eligible exactly when its cosine similarity to the query is at least
\* similarity_threshold: the retrieved candidates are the most similar
\* eligible chunks, a chunk at the threshold included.
C25_RetrievesAtOrAboveThreshold ==
    (fn.op = "search" /\ fn.returned) =>
        LET eligible == {c \in fn.store : Similarity(c) >= fn.similarity_threshold}
            retrieved == Range(fn.chunk_results)
        IN  /\ Len(fn.chunk_results) <= 2 * fn.limit
            /\ retrieved \subseteq eligible
            /\ \A c \in eligible \ retrieved :
                   /\ Len(fn.chunk_results) = 2 * fn.limit
                   /\ \A r \in retrieved : Similarity(r) >= Similarity(c)

\* C26: every match confidence of the engine lies in [0.7, 1.0], so a rule with
\* at least one match is never NON_COMPLIANT: a NON_COMPLIANT result belongs
\* to a required rule without a match and has missing_clause = True.
C26_NonCompliantOnlyWhenMissing ==
    \A i \in DOMAIN run.results :
        LET r == run.results[i]
        IN  /\ \A m \in DOMAIN r.matched_clauses :
                   r.matched_clauses[m].confidence >= 70 /\ r.matched_clauses[m].confidence <= 100
            /\ r.matched_clauses # <<>> => r.status # NON_COMPLIANT
            /\ r.status = NON_COMPLIANT =>
                   /\ run.rules[i].required
                   /\ r.matched_clauses = <<>>
                   /\ r.missing_clause

\* an analysis with a matched rule under review and a missing required rule
C26_Witness ==
    /\ \E i \in DOMAIN run.results :
           /\ run.results[i].matched_clauses # <<>>
           /\ run.results[i].status = REVIEW_REQUIRED
    /\ \E i \in DOMAIN run.results :
           /\ run.results[i].status = NON_COMPLIANT
           /\ run.results[i].missing_clause

\* C27: a degraded response of the failure path of RAGService.query
\* (model_used = "error") is never written to the RAG response cache, so no
\* later query finds the error answer under its key.
C27_ErrorResponseNotCached ==
    \A e \in cache : e.value.model_used # "error"

\* ---------------------------------------------------------------------------
\* Repeated analyses of one document through the analyze endpoint: after a
\* request has been answered the next one starts from an idle request state,
\* with the analyses saved so far.
\* ---------------------------------------------------------------------------
MaxAnalyses == 3

NewAnalyzeRequest ==
    /\ run.pc = "done"
    /\ Len(analysisTable) < MaxAnalyses
    /\ run' = IdleRun
    /\ UNCHANGED <<doc, analysisTable, clauseTable, riskVars, ragVars, cmpVars, extVars>>

NextReanalysis == NextAnalysis \/ NewAnalyzeRequest

SpecReanalysis == InitAnalysis /\ [][NextReanalysis]_vars

\* C28: the trend reported with an analysis takes the score of that analysis
\* as its latest data point: from the second analysis of a document on, the
\* reported trend is not null and compares the analysis with the one before.
C28_TrendIncludesCurrentAnalysis ==
    (run.pc = "done" /\ run.http = 200 /\ Len(analysisTable) >= 2) =>
        /\ run.assessment.trend # None
        /\ run.assessment.trend = CalculateRiskTrend(analysisTable)

\* C29: when ingest_document fails after its status check, the document's
\* status is left as it was before the request.
C29_FailedIngestRestoresStatus ==
    ingest.pc = "run" =>
        \A r \in DOMAIN ingest.reqs :
            ingest.reqs[r].http = 500 => ingest.reqs[r].after = ingest.reqs[r].before

\* C30: for any interleaving of concurrent ingest_document requests on one
\* document, two requests never both pass the status check for the same
\* processing round, and at most one processing job is submitted for it.
C30_OneJobPerProcessingRound ==
    ingest.pc = "run" =>
        /\ Cardinality({r \in DOMAIN ingest.reqs : ingest.reqs[r].pc \in {"checked", "committed"}}) <= 1
        /\ ingest.jobs <= 1
====
